---- MODULE Spec2Model ----
(***************************************************************************)
(* State-machine model of the QuadTree of spatial/quadtree.js: the node    *)
(* tree, the attached-items list, the ordered (draw order) list, the       *)
(* update queue and the selection cursor.                                  *)
(*                                                                         *)
(* quadtree.js is modelled from its source.  QuadTreeNode, QuadTreeItem    *)
(* and List (quadtree-node.js, quadtree-item.js, utils/list.js) are        *)
(* modelled from the specification's sections 3 and 4.1.                   *)
(*                                                                         *)
(* The frame loop, the update and draw queues and the interpolator of      *)
(* system/system.js, and the Timer of system/timer.js, are modelled from   *)
(* their sources as two more objects, system and timer.                    *)
(***************************************************************************)
EXTENDS Integers, Sequences, FiniteSets, TLC

\* ------------------------------------------------------------------ bounds
NumItems == 2       \* number of QuadTreeItem objects the callers own
MaxDepth == 1       \* subdivision depth after which a node no longer splits
MaxList == 3        \* cap on the length of orderedItems (re-adding grows it)

Items == 1 .. NumItems
NoItem == 0

\* The unordered pairs of items (a pair of an item with itself included), and
\* no onCollision call made for any of them.
Pairs == {pr \in Items \X Items : pr[1] <= pr[2]}
NoPairs == [pr \in Pairs |-> 0]

\* ------------------------------------------------------------------- Rect
\* Rect (external primitive): axis-aligned box x1,y1,x2,y2.
Rect(x1, y1, x2, y2) == [x1 |-> x1, y1 |-> y1, x2 |-> x2, y2 |-> y2]

\* Twice the centre of the box (cx = (x1+x2)/2, cy = (y1+y2)/2): kept doubled
\* so that the values stay integers; only sums of centres are compared.
Cx2(r) == r.x1 + r.x2
Cy2(r) == r.y1 + r.y2

\* r fully contains s.
RectContains(r, s) ==
    /\ r.x1 <= s.x1 /\ s.x2 <= r.x2
    /\ r.y1 <= s.y1 /\ s.y2 <= r.y2

\* r and s intersect.
RectIntersects(r, s) ==
    /\ r.x1 <= s.x2 /\ s.x1 <= r.x2
    /\ r.y1 <= s.y2 /\ s.y1 <= r.y2

\* Extents given to the constructor: new QuadTree (0, 0, 8, 8, nodeCapacity).
WorldSize == 8
Extents == Rect(0, 0, WorldSize, WorldSize)

\* Bounds the callers give to their items: one box per quadrant corner (with
\* ties on y1 and on x1), one straddling the split lines, one partly outside
\* the extents.
RectNW == Rect(0, 0, 2, 2)
RectNE == Rect(6, 0, 8, 2)
RectSW == Rect(0, 6, 2, 8)
RectMid == Rect(3, 3, 5, 5)
RectOut == Rect(6, 6, 10, 10)
ItemRects == {RectNW, RectNE, RectSW, RectMid, RectOut}

\* Regions passed to selectItems/countItems; NullRect stands for rect = null.
NullRect == Rect(0, 0, -1, -1)
QueryRects == {NullRect, Rect(0, 0, 2, 2), Rect(5, 0, 8, 8)}

\* The zindex the owners give their items unless said otherwise: items 1 and 2
\* share a layer.
Layers == [i \in Items |-> IF i <= 2 THEN 0 ELSE 1]

\* ------------------------------------------------------------ comparators
Xor(a, b) == a # b

\* COMPARATOR_* (a, b, p, q): a, b are the insertion bounds, pz, qz the
\* zindex of p and q; d is the record of axis flags [xd, yd, zd].
COMPARATOR_DEFAULT_YX(a, b, pz, qz, d) ==
    \/ Xor(pz < qz, d.zd)
    \/ /\ pz = qz
       /\ \/ Xor(a.y1 < b.y1, d.yd)
          \/ (a.y1 = b.y1 /\ Xor(a.x1 < b.x1, d.xd))

COMPARATOR_DEFAULT_XY(a, b, pz, qz, d) ==
    \/ Xor(pz < qz, d.zd)
    \/ /\ pz = qz
       /\ \/ Xor(a.x1 < b.x1, d.xd)
          \/ (a.x1 = b.x1 /\ Xor(a.y1 < b.y1, d.yd))

\* Mutant of COMPARATOR_MANHATTAN: the Z comparison ignores zd.
COMPARATOR_MANHATTAN_NoZd(a, b, pz, qz, d) ==
    \/ pz < qz
    \/ (pz = qz /\ Cx2(a) + Cy2(a) < Cx2(b) + Cy2(b))

COMPARATOR_MANHATTAN(a, b, pz, qz, d) ==
    \/ Xor(pz < qz, d.zd)
    \/ (pz = qz /\ Cx2(a) + Cy2(a) < Cx2(b) + Cy2(b))

\* In the source ^ binds tighter than &&: a.y2==b.y2 && ((a.x1<=b.x1)^xd).
COMPARATOR_Y2(a, b, pz, qz, d) ==
    \/ Xor(pz < qz, d.zd)
    \/ /\ pz = qz
       /\ \/ Xor(a.y2 < b.y2, d.yd)
          \/ (a.y2 = b.y2 /\ Xor(a.x1 <= b.x1, d.xd))

COMPARATOR_Y1(a, b, pz, qz, d) == Xor(a.y1 + pz < b.y1 + qz, d.yd)

COMPARATOR_X2(a, b, pz, qz, d) == Xor(a.x2 + pz < b.x2 + qz, d.xd)

COMPARATOR_X1(a, b, pz, qz, d) == Xor(a.x1 + pz < b.x1 + qz, d.xd)

AllComparators == {"YX", "XY", "MANHATTAN", "Y2", "Y1", "X2", "X1"}

\* this.fnComparator (a, b, p, q) for the comparator named c.
fnComparatorOf(c, a, b, pz, qz, d) ==
    CASE c = "YX" -> COMPARATOR_DEFAULT_YX(a, b, pz, qz, d)
      [] c = "XY" -> COMPARATOR_DEFAULT_XY(a, b, pz, qz, d)
      [] c = "MANHATTAN" -> COMPARATOR_MANHATTAN(a, b, pz, qz, d)
      [] c = "Y2" -> COMPARATOR_Y2(a, b, pz, qz, d)
      [] c = "Y1" -> COMPARATOR_Y1(a, b, pz, qz, d)
      [] c = "X2" -> COMPARATOR_X2(a, b, pz, qz, d)
      [] c = "X1" -> COMPARATOR_X1(a, b, pz, qz, d)

\* ---------------------------------------------------------------- state
VARIABLES
    bounds,           \* item.bounds, set by the item's owner
    insertionBounds,  \* item.insertionBounds, the bounds the item was inserted with
    zindex,           \* item.zindex, set by the item's owner
    flags,            \* item.flags, a subset of {ATTACHED, SELECTED, QUEUED}
    node,             \* item.node, back-reference to the node holding the item
    split,            \* the nodes that have subdivided into four children
    held,             \* node.items: for each node of the tree, how many times it holds each item
    items,            \* QuadTree.items, the attached items (how many times each)
    orderedItems,     \* QuadTree.orderedItems, head first
    updateQueue,      \* QuadTree.updateQueue, head first
    nodeCapacity,     \* QuadTree.nodeCapacity
    nextItem,         \* QuadTree.nextItem, the selection cursor
    selectedCount,    \* QuadTree.selectedCount
    selectedIndex,    \* QuadTree.selectedIndex
    isReverse,        \* QuadTree.isReverse
    dirs,             \* QuadTree.xd, yd, zd
    fnComparator,     \* QuadTree.fnComparator
    notified,         \* the notifyPosition () calls the last call made, in order
    collided,         \* the onCollision (a, b) calls the last call made, per pair
    updating,         \* update () is inside its loop, between two iterations
    ret,              \* what the last call returned (or "throw")
    system,           \* the System object: its fields and what its last call did
    timer             \* a Timer object, its pending timeouts and the clock

vars == <<bounds, insertionBounds, zindex, flags, node, split, held, items,
          orderedItems, updateQueue, nodeCapacity, nextItem, selectedCount,
          selectedIndex, isReverse, dirs, fnComparator, notified, collided,
          updating, ret, system, timer>>

treeVars == <<bounds, insertionBounds, zindex, flags, node, split, held, items,
              orderedItems, updateQueue, nodeCapacity, nextItem, selectedCount,
              selectedIndex, isReverse, dirs, fnComparator, notified, collided,
              updating, ret>>

FLAG_ATTACHED == "ATTACHED"
FLAG_SELECTED == "SELECTED"
FLAG_QUEUED == "QUEUED"

\* The whole program state as one record, so that a method is a function from
\* state to state and a method that calls another composes them.  A call
\* starts with no callback made yet.
State ==
    [bounds |-> bounds, insertionBounds |-> insertionBounds, zindex |-> zindex,
     flags |-> flags,
     node |-> node, split |-> split, held |-> held,
     items |-> items, orderedItems |-> orderedItems, updateQueue |-> updateQueue,
     nodeCapacity |-> nodeCapacity, nextItem |-> nextItem,
     selectedCount |-> selectedCount, selectedIndex |-> selectedIndex,
     isReverse |-> isReverse, dirs |-> dirs, fnComparator |-> fnComparator,
     notified |-> << >>, collided |-> NoPairs, updating |-> updating,
     ret |-> ret]

Commit(new) ==
    \E s \in {new} :
    /\ bounds' = s.bounds
    /\ insertionBounds' = s.insertionBounds
    /\ zindex' = s.zindex
    /\ flags' = s.flags
    /\ node' = s.node
    /\ split' = s.split
    /\ held' = s.held
    /\ items' = s.items
    /\ orderedItems' = s.orderedItems
    /\ updateQueue' = s.updateQueue
    /\ nodeCapacity' = s.nodeCapacity
    /\ nextItem' = s.nextItem
    /\ selectedCount' = s.selectedCount
    /\ selectedIndex' = s.selectedIndex
    /\ isReverse' = s.isReverse
    /\ dirs' = s.dirs
    /\ fnComparator' = s.fnComparator
    /\ notified' = s.notified
    /\ collided' = s.collided
    /\ updating' = s.updating
    /\ ret' = s.ret
    /\ UNCHANGED <<system, timer>>

\* Values of ret: a boolean, a count, an item, null, nothing, or an exception
\* leaving the call.  item.selectedIndex is written by getNextSelected and read
\* by nothing in the tree: it is shown with the item returned (index), the
\* value the item carries when the caller gets it.
Ret(kind, n, index) == [kind |-> kind, n |-> n, index |-> index]
RetBool(v) == Ret("bool", IF v THEN 1 ELSE 0, 0)
RetInt(n) == Ret("int", n, 0)
RetItem(i, index) == Ret("item", i, index)
RetNull == Ret("null", 0, 0)
RetVoid == Ret("void", 0, 0)
RetThrow == Ret("throw", 0, 0)

\* ------------------------------------------------------------------ List
\* utils/list.js: a doubly linked list.  A list is the sequence of its values,
\* head (top) first; a Linkable of the list is its position 1..Len.

\* How many Linkables of the list hold v.
Occurrences(list, v) == Cardinality({k \in 1 .. Len(list) : list[k] = v})

\* list.sgetNode (value): the first Linkable holding value, 0 when none does.
sgetNode(list, v) ==
    IF \E k \in 1 .. Len(list) : list[k] = v
    THEN CHOOSE k \in 1 .. Len(list) :
            list[k] = v /\ \A j \in 1 .. (k - 1) : list[j] # v
    ELSE 0

\* list.insertBefore (ref, value): value takes position k, ref moves to k+1.
insertBefore(list, k, v) ==
    SubSeq(list, 1, k - 1) \o <<v>> \o SubSeq(list, k, Len(list))

\* list.push (value): appends at the bottom.
push(list, v) == Append(list, v)

\* list.remove (ref): unlinks position k; remove (null) does nothing.
remove(list, k) ==
    IF k = 0 THEN list
    ELSE SubSeq(list, 1, k - 1) \o SubSeq(list, k + 1, Len(list))

\* A cursor into orderedItems (QuadTree.nextItem): 0 is null, k > 0 is the
\* Linkable at position k, and -i is a Linkable that was unlinked from the list
\* while the cursor was on it: it still holds item i, its prev and next are null.
CursorNull == 0
CursorOff(i) == 0 - i

\* The cursor after list.insertBefore at position k / list.remove of position k.
CursorAfterInsert(c, k) == IF c >= k /\ c > 0 THEN c + 1 ELSE c
CursorAfterRemove(c, k, list) ==
    IF k = 0 \/ c <= 0 THEN c
    ELSE IF c = k THEN CursorOff(list[k])
    ELSE IF c > k THEN c - 1
    ELSE c

\* ---------------------------------------------------------- QuadTreeNode
\* A node is the path of quadrant numbers leading to it from the root.
Quadrants == 1 .. 4
Root == << >>
NoNode == <<0>>
Paths == UNION {[1 .. n -> Quadrants] : n \in 0 .. MaxDepth}

\* The quadrant q of rectangle r, split at its midpoint.
Quadrant(r, q) ==
    LET mx == (r.x1 + r.x2) \div 2
        my == (r.y1 + r.y2) \div 2
    IN CASE q = 1 -> Rect(r.x1, r.y1, mx, my)
         [] q = 2 -> Rect(mx, r.y1, r.x2, my)
         [] q = 3 -> Rect(r.x1, my, mx, r.y2)
         [] q = 4 -> Rect(mx, my, r.x2, r.y2)

RECURSIVE NodeBounds(_)
NodeBounds(p) ==
    IF p = Root THEN Extents
    ELSE Quadrant(NodeBounds(SubSeq(p, 1, Len(p) - 1)), p[Len(p)])

\* node.bounds of every node.
BoundsOf == [p \in Paths |-> NodeBounds(p)]

\* Number of items a node holds directly.
RECURSIVE SumOver(_, _)
SumOver(f, S) ==
    IF S = {} THEN 0
    ELSE LET x == CHOOSE x \in S : TRUE IN f[x] + SumOver(f, S \ {x})

NodeCount(s, p) == SumOver(s.held[p], Items)

NoItems == [i \in Items |-> 0]

\* The items of a bag as a sequence, in item order, each as often as held.
RECURSIVE BagSeq(_, _)
BagSeq(bag, i) ==
    IF i > NumItems THEN << >>
    ELSE [k \in 1 .. bag[i] |-> i] \o BagSeq(bag, i + 1)

\* The node keeps item i itself.
NodeHold(s, p, i) ==
    [s EXCEPT !.held[p][i] = @ + 1, !.node[i] = p]

\* The node creates its four children and hands its items out.
Children(p) == {Append(p, q) : q \in Quadrants}
NodeSubdivide(s, p) ==
    [s EXCEPT !.split = @ \cup {p},
              !.held = [n \in DOMAIN @ \cup Children(p) |->
                           IF n \in DOMAIN @ /\ n # p THEN @[n] ELSE NoItems]]

\* insert, below the containment test: a leaf under capacity keeps the item; a
\* leaf at capacity subdivides and redistributes its items and the new one; an
\* internal node hands the item to the child that fully contains it and keeps
\* it as an overflow item when no child does.
RECURSIVE NodePlace(_, _, _), NodePlaceAll(_, _, _)

\* Mutant of NodePlace: the node keeps the item, whatever it holds already.
NodePlace_Keep(s, p, i) == NodeHold(s, p, i)

NodePlace(s, p, i) ==
    IF p \in s.split
    THEN LET fit == {q \in Quadrants :
                       RectContains(BoundsOf[Append(p, q)], s.bounds[i])}
         IN IF fit = {} THEN NodeHold(s, p, i)
            ELSE NodePlace(s, Append(p, CHOOSE q \in fit : \A r \in fit : q <= r), i)
    ELSE IF NodeCount(s, p) < s.nodeCapacity \/ Len(p) >= MaxDepth
    THEN NodeHold(s, p, i)
    ELSE NodePlaceAll(NodeSubdivide(s, p), p, BagSeq(s.held[p], 1) \o <<i>>)

NodePlaceAll(s, p, seq) ==
    IF seq = << >> THEN s
    ELSE NodePlaceAll(NodePlace(s, p, Head(seq)), p, Tail(seq))

\* root.addItem (item, capacity): false when the item's bounds are not fully
\* contained in the extents; otherwise attaches the item to a node, records
\* it in tree.items and sets ATTACHED.  The result's ok field is the return.
NodeAddItem(s, i) ==
    IF ~RectContains(BoundsOf[Root], s.bounds[i])
    THEN [ok |-> FALSE, s |-> s]
    ELSE LET t == NodePlace(s, Root, i)
         IN [ok |-> TRUE,
             s |-> [t EXCEPT !.items[i] = @ + 1,
                             !.insertionBounds[i] = s.bounds[i],
                             !.flags[i] = @ \cup {FLAG_ATTACHED}]]

\* root.removeItem (item): unlinks the item from the node its back-reference
\* names, from tree.items, and clears ATTACHED; false when it has no node.
NodeRemoveItem(s, i) ==
    IF s.node[i] = NoNode
    THEN [ok |-> FALSE, s |-> s]
    ELSE [ok |-> TRUE,
          s |-> [s EXCEPT !.held[s.node[i]][i] = IF @ > 0 THEN @ - 1 ELSE 0,
                          !.items[i] = IF @ > 0 THEN @ - 1 ELSE 0,
                          !.node[i] = NoNode,
                          !.flags[i] = @ \ {FLAG_ATTACHED}]]

\* The nodes below node p.
Descendants(s, p) ==
    {d \in DOMAIN s.held : Len(d) > Len(p) /\ SubSeq(d, 1, Len(p)) = p}

\* node.detectCollisions (handler, forced), the tests node p makes of items a
\* and b: each a it owns against each b it owns (once per pair), and each a
\* it owns against each b of a descendant whose bounds intersect a.
TestsWithin(s, p, a, b) ==
    IF a = b THEN (s.held[p][a] * (s.held[p][a] - 1)) \div 2
    ELSE s.held[p][a] * s.held[p][b]

TestsBelow(s, p, a, b) ==
    LET below == {d \in Descendants(s, p) : RectIntersects(BoundsOf[d], s.bounds[a])}
    IN s.held[p][a] * SumOver([d \in below |-> s.held[d][b]], below)

NodeTests(s, p, a, b) ==
    TestsWithin(s, p, a, b) + TestsBelow(s, p, a, b)
        + (IF a = b THEN 0 ELSE TestsBelow(s, p, b, a))

\* root.detectCollisions (handler, forced): every node makes its tests; a pair
\* tested whose items both pass handler.onFilterRequest (filter: the items it
\* accepts) and whose boxes overlap gets handler.onCollision.  No shortcut is
\* taken when forced is false.
NodeDetectCollisions(s, filter, forced) ==
    [s EXCEPT !.collided =
        [pr \in Pairs |->
            IF /\ pr[1] \in filter /\ pr[2] \in filter
               /\ RectIntersects(s.bounds[pr[1]], s.bounds[pr[2]])
            THEN @[pr] + SumOver([p \in DOMAIN s.held |-> NodeTests(s, p, pr[1], pr[2])],
                                 DOMAIN s.held)
            ELSE @[pr]]]

\* The region test of a query: rect = null selects everything.
InRegion(rect, r) == rect = NullRect \/ RectIntersects(rect, r)

\* The nodes root.selectItems (rect, filter) visits: the root, and every child
\* of a visited node whose bounds intersect rect.
Visited(s, rect) ==
    {p \in DOMAIN s.held :
        \A n \in 1 .. Len(p) : InRegion(rect, BoundsOf[SubSeq(p, 1, n)])}

\* root.selectItems (rect, filter): every item owned by a visited node whose
\* bounds intersect rect and that passes the filter gets SELECTED, and
\* tree.selectedCount is incremented for it.  filter is the set of items the
\* filter function accepts (Items for filter = null).
Hits(s, visited, rect, filter, i) ==
    IF i \in filter /\ InRegion(rect, s.bounds[i])
    THEN SumOver([p \in visited |-> s.held[p][i]], visited)
    ELSE 0

NodeSelectItems(s, rect, filter) ==
    LET visited == Visited(s, rect)
        hits == [i \in Items |-> Hits(s, visited, rect, filter, i)]
    IN [s EXCEPT !.flags = [i \in Items |->
                               IF hits[i] > 0 THEN @[i] \cup {FLAG_SELECTED} ELSE @[i]],
                 !.selectedCount = @ + SumOver(hits, Items)]

\* -------------------------------------------------------------- QuadTree
\* isBefore (p, q): the comparator on the insertion bounds and the items.
isBefore(s, p, q) ==
    fnComparatorOf(s.fnComparator, s.insertionBounds[p], s.insertionBounds[q],
                   s.zindex[p], s.zindex[q], s.dirs)

\* Mutant of addItemOrdered: the item is always pushed at the bottom.
addItemOrdered_Push(s, i) == [s EXCEPT !.orderedItems = push(@, i)]

\* Mutant of addItemOrdered: after the first element the item is before.
addItemOrdered_After(s, i) ==
    LET list == s.orderedItems
        before == {k \in 1 .. Len(list) : isBefore(s, i, list[k])}
    IN IF before = {}
       THEN [s EXCEPT !.orderedItems = push(list, i)]
       ELSE LET k == CHOOSE k \in before : \A j \in before : k <= j
            IN [s EXCEPT !.orderedItems =
                            SubSeq(list, 1, k) \o <<i>> \o SubSeq(list, k + 1, Len(list)),
                         !.nextItem = CursorAfterInsert(@, k + 1)]

\* addItemOrdered (item): before the first element the item is before, scanning
\* from the top; pushed at the bottom when there is none.
addItemOrdered(s, i) ==
    LET list == s.orderedItems
        before == {k \in 1 .. Len(list) : isBefore(s, i, list[k])}
    IN IF before = {}
       THEN [s EXCEPT !.orderedItems = push(list, i)]
       ELSE LET k == CHOOSE k \in before : \A j \in before : k <= j
            IN [s EXCEPT !.orderedItems = insertBefore(list, k, i),
                         !.nextItem = CursorAfterInsert(@, k)]

\* Mutant of reorderItems: an item that is before the top of the new list is
\* dropped.
reorderItems_Drop(s) ==
    [s EXCEPT !.orderedItems =
                 SelectSeq(@, LAMBDA i : @ = << >> \/ ~isBefore(s, i, Head(@))),
              !.ret = RetVoid]

\* reorderItems (): a new list, filled by addItemOrdered from the old one walked
\* top to bottom; the old list is disposed (a cursor on it is left unlinked).
RECURSIVE AddAllOrdered(_, _)
AddAllOrdered(s, seq) ==
    IF seq = << >> THEN s
    ELSE AddAllOrdered(addItemOrdered(s, Head(seq)), Tail(seq))

reorderItems(s) ==
    LET tmp == s.orderedItems
        fresh == [s EXCEPT !.orderedItems = << >>,
                           !.nextItem = IF @ > 0 THEN CursorOff(tmp[@]) ELSE @]
    IN [AddAllOrdered(fresh, tmp) EXCEPT !.ret = RetVoid]

\* Mutant of addItem: the result of root.addItem is ignored.
addItem_Unchecked(s, i) ==
    [addItemOrdered(NodeAddItem(s, i).s, i) EXCEPT !.ret = RetBool(NodeAddItem(s, i).ok)]

\* addItem (item)
addItem(s, i) ==
    LET r == NodeAddItem(s, i)
    IN IF r.ok
       THEN [addItemOrdered(r.s, i) EXCEPT !.ret = RetBool(TRUE)]
       ELSE [s EXCEPT !.ret = RetBool(FALSE)]

\* Mutant of removeItem: without the early return for items not attached.
removeItem_NoGuard(s, i) ==
    LET r == NodeRemoveItem(s, i)
        k == sgetNode(s.orderedItems, i)
    IN IF ~r.ok
       THEN [s EXCEPT !.ret = RetBool(FALSE)]
       ELSE [r.s EXCEPT !.orderedItems = remove(@, k),
                        !.nextItem = CursorAfterRemove(@, k, s.orderedItems),
                        !.ret = RetBool(TRUE)]

\* Mutant of removeItem: the item is also taken out of the update queue.
removeItem_Dequeue(s, i) ==
    IF FLAG_ATTACHED \notin s.flags[i]
    THEN [s EXCEPT !.ret = RetBool(TRUE)]
    ELSE LET r == NodeRemoveItem(s, i)
             k == sgetNode(s.orderedItems, i)
         IN IF ~r.ok
            THEN [s EXCEPT !.ret = RetBool(FALSE)]
            ELSE [r.s EXCEPT !.orderedItems = remove(@, k),
                             !.nextItem = CursorAfterRemove(@, k, s.orderedItems),
                             !.updateQueue = SelectSeq(@, LAMBDA v : v # i),
                             !.flags[i] = @ \ {FLAG_QUEUED},
                             !.ret = RetBool(TRUE)]

\* removeItem (item)
removeItem(s, i) ==
    IF FLAG_ATTACHED \notin s.flags[i]
    THEN [s EXCEPT !.ret = RetBool(TRUE)]
    ELSE LET r == NodeRemoveItem(s, i)
             k == sgetNode(s.orderedItems, i)
         IN IF ~r.ok
            THEN [s EXCEPT !.ret = RetBool(FALSE)]
            ELSE [r.s EXCEPT !.orderedItems = remove(@, k),
                             !.nextItem = CursorAfterRemove(@, k, s.orderedItems),
                             !.ret = RetBool(TRUE)]

\* Mutant of updateItem: the item is queued before the re-insertion is checked.
updateItem_QueueFirst(s, i) ==
    LET s1 == removeItem(s, i)
        s2 == addItem(s1, i)
        s3 == IF FLAG_QUEUED \in s2.flags[i] THEN s2
              ELSE [s2 EXCEPT !.updateQueue = push(@, i),
                              !.flags[i] = @ \cup {FLAG_QUEUED}]
    IN IF s2.ret = RetBool(FALSE)
       THEN [s3 EXCEPT !.ret = RetThrow]
       ELSE [s3 EXCEPT !.ret = RetVoid]

\* Mutant of updateItem: the item is queued whether it is QUEUED or not.
updateItem_AlwaysQueue(s, i) ==
    LET s1 == removeItem(s, i)
        s2 == addItem(s1, i)
    IN IF s2.ret = RetBool(FALSE)
       THEN [s2 EXCEPT !.ret = RetThrow]
       ELSE [s2 EXCEPT !.updateQueue = push(@, i),
                       !.flags[i] = @ \cup {FLAG_QUEUED},
                       !.ret = RetVoid]

\* Mutant of updateItem: nothing is done for an item that is not attached.
updateItem_IfAttached(s, i) ==
    IF FLAG_ATTACHED \notin s.flags[i] THEN [s EXCEPT !.ret = RetVoid]
    ELSE LET s1 == removeItem(s, i)
             s2 == addItem(s1, i)
         IN IF s2.ret = RetBool(FALSE)
            THEN [s2 EXCEPT !.ret = RetThrow]
            ELSE IF FLAG_QUEUED \in s2.flags[i]
            THEN [s2 EXCEPT !.ret = RetVoid]
            ELSE [s2 EXCEPT !.updateQueue = push(@, i),
                            !.flags[i] = @ \cup {FLAG_QUEUED},
                            !.ret = RetVoid]

\* updateItem (item)
updateItem(s, i) ==
    LET s1 == removeItem(s, i)
        s2 == addItem(s1, i)
    IN IF s2.ret = RetBool(FALSE)
       THEN [s2 EXCEPT !.ret = RetThrow]
       ELSE IF FLAG_QUEUED \in s2.flags[i]
       THEN [s2 EXCEPT !.ret = RetVoid]
       ELSE [s2 EXCEPT !.updateQueue = push(@, i),
                       !.flags[i] = @ \cup {FLAG_QUEUED},
                       !.ret = RetVoid]

\* update (): pops the queue until it is empty, clearing QUEUED of each item
\* popped and calling its notifyPosition ().
\* item.notifyPosition (): the item's callback, seen from the tree as a call
\* made with the item's QUEUED flag as it is at that moment.
notifyPosition(s, i) ==
    [s EXCEPT !.notified = Append(@, [item |-> i,
                                      queued |-> FLAG_QUEUED \in s.flags[i]])]

\* Mutant of update: the callback runs before QUEUED is cleared.
update_NotifyFirst(s) ==
    [s EXCEPT !.notified = [k \in 1 .. Len(s.updateQueue) |->
                               [item |-> s.updateQueue[k], queued |-> TRUE]],
              !.flags = [i \in Items |->
                            IF Occurrences(s.updateQueue, i) > 0
                            THEN @[i] \ {FLAG_QUEUED} ELSE @[i]],
              !.updateQueue = << >>,
              !.ret = RetVoid]

\* Mutant of update: the queue is drained from its bottom.
update_Lifo(s) ==
    [s EXCEPT !.notified = [k \in 1 .. Len(s.updateQueue) |->
                               [item |-> s.updateQueue[Len(s.updateQueue) + 1 - k],
                                queued |-> FALSE]],
              !.flags = [i \in Items |->
                            IF Occurrences(s.updateQueue, i) > 0
                            THEN @[i] \ {FLAG_QUEUED} ELSE @[i]],
              !.updateQueue = << >>,
              !.ret = RetVoid]

\* Mutant of updateTurn: QUEUED is not cleared.
updateTurn_KeepQueued(s, cb) ==
    LET i == Head(s.updateQueue)
        s1 == notifyPosition([s EXCEPT !.updateQueue = Tail(@)], i)
    IN IF cb = NoItem THEN s1 ELSE updateItem(s1, cb)

\* One iteration of the loop of update (): the item popped has QUEUED cleared
\* and is then notified.  cb is what its notifyPosition () does with the tree:
\* nothing (NoItem), or a call of updateItem (cb).
updateTurn(s, cb) ==
    LET i == Head(s.updateQueue)
        s1 == notifyPosition([s EXCEPT !.updateQueue = Tail(@),
                                       !.flags[i] = @ \ {FLAG_QUEUED}], i)
    IN IF cb = NoItem THEN s1 ELSE updateItem(s1, cb)

\* update () with callbacks that do not call the tree: iterates until the
\* queue is empty.
RECURSIVE update(_)
update(s) ==
    IF s.updateQueue = << >> THEN [s EXCEPT !.ret = RetVoid]
    ELSE update(updateTurn(s, NoItem))

\* setXd, setYd, setZd (value)
setXd(s, value) ==
    IF s.dirs.xd = value THEN [s EXCEPT !.ret = RetBool(FALSE)]
    ELSE [s EXCEPT !.dirs.xd = value, !.ret = RetBool(TRUE)]

\* Mutant of setYd: the flag is left as it was.
setYd_Keep(s, value) == [s EXCEPT !.ret = RetVoid]

setYd(s, value) ==
    IF s.dirs.yd = value THEN [s EXCEPT !.ret = RetBool(FALSE)]
    ELSE [s EXCEPT !.dirs.yd = value, !.ret = RetBool(TRUE)]

setZd(s, value) ==
    IF s.dirs.zd = value THEN [s EXCEPT !.ret = RetBool(FALSE)]
    ELSE [s EXCEPT !.dirs.zd = value, !.ret = RetBool(TRUE)]

\* Mutant of setComparator: the list is reordered as the comparator changes.
setComparator_Reorder(s, c) ==
    IF s.fnComparator = c THEN [s EXCEPT !.ret = RetBool(FALSE)]
    ELSE [reorderItems([s EXCEPT !.fnComparator = c]) EXCEPT !.ret = RetBool(TRUE)]

\* setComparator (fnComparator)
setComparator(s, c) ==
    IF s.fnComparator = c THEN [s EXCEPT !.ret = RetBool(FALSE)]
    ELSE [s EXCEPT !.fnComparator = c, !.ret = RetBool(TRUE)]

\* The isReverse argument of selectItems and getNextSelected: "null" (the
\* default) stands for this.isReverse.
RevArgs == {"null", "false", "true"}
Reverse(s, arg) == IF arg = "null" THEN s.isReverse ELSE arg = "true"

\* Mutant of selectItems: the cursor starts at the top whatever the direction.
selectItems_FromTop(s, rect, filter, arg) ==
    LET s1 == NodeSelectItems([s EXCEPT !.selectedCount = 0, !.selectedIndex = 0],
                              rect, filter)
    IN [s1 EXCEPT !.nextItem = IF s.orderedItems = << >> THEN CursorNull ELSE 1,
                  !.ret = RetInt(s1.selectedCount)]

\* Mutant of selectItems: selectedCount is not reset.
selectItems_NoReset(s, rect, filter, arg) ==
    LET s1 == NodeSelectItems([s EXCEPT !.selectedIndex = 0], rect, filter)
    IN [s1 EXCEPT !.nextItem = IF Reverse(s, arg) THEN Len(s.orderedItems)
                               ELSE IF s.orderedItems = << >> THEN CursorNull ELSE 1,
                  !.ret = RetInt(s1.selectedCount)]

\* Mutant of selectItems: selectedCount is reset after the pass over the nodes.
selectItems_ResetAfter(s, rect, filter, arg) ==
    LET s1 == NodeSelectItems([s EXCEPT !.selectedIndex = 0], rect, filter)
    IN [s1 EXCEPT !.selectedCount = 0,
                  !.nextItem = IF Reverse(s, arg) THEN Len(s.orderedItems)
                               ELSE IF s.orderedItems = << >> THEN CursorNull ELSE 1,
                  !.ret = RetInt(0)]

\* selectItems (rect, filter, isReverse)
selectItems(s, rect, filter, arg) ==
    LET s1 == NodeSelectItems([s EXCEPT !.selectedCount = 0, !.selectedIndex = 0],
                              rect, filter)
    IN [s1 EXCEPT !.nextItem = IF Reverse(s, arg) THEN Len(s.orderedItems)
                               ELSE IF s.orderedItems = << >> THEN CursorNull ELSE 1,
                  !.ret = RetInt(s1.selectedCount)]

\* Mutant of CursorStep: prev and next exchanged.
CursorStep_Flipped(s, c, rev) ==
    IF c <= 0 THEN CursorNull
    ELSE IF ~rev THEN c - 1
    ELSE IF c = Len(s.orderedItems) THEN CursorNull ELSE c + 1

\* The value, and the prev or next Linkable, of a cursor that is not null.
CursorValue(s, c) == IF c > 0 THEN s.orderedItems[c] ELSE 0 - c
CursorStep(s, c, rev) ==
    IF c <= 0 THEN CursorNull
    ELSE IF rev THEN c - 1
    ELSE IF c = Len(s.orderedItems) THEN CursorNull ELSE c + 1

\* The loop of getNextSelected: skips the Linkables whose item is not SELECTED.
RECURSIVE SkipUnselected(_, _, _)
SkipUnselected(s, c, rev) ==
    IF c # CursorNull /\ FLAG_SELECTED \notin s.flags[CursorValue(s, c)]
    THEN SkipUnselected(s, CursorStep(s, c, rev), rev)
    ELSE c

\* Mutant of getNextSelected: selectedCount is not decremented.
getNextSelected_NoCount(s, arg) ==
    LET rev == Reverse(s, arg)
        c == SkipUnselected(s, s.nextItem, rev)
    IN IF c = CursorNull
       THEN [s EXCEPT !.nextItem = CursorNull, !.ret = RetNull]
       ELSE LET i == CursorValue(s, c)
            IN [s EXCEPT !.flags[i] = @ \ {FLAG_SELECTED},
                         !.nextItem = CursorStep(s, c, rev),
                         !.selectedIndex = @ + 1,
                         !.ret = RetItem(i, s.selectedIndex)]

\* Mutant of getNextSelected: the ordinal given to the item is the one after
\* the increment.
getNextSelected_IndexAfter(s, arg) ==
    LET rev == Reverse(s, arg)
        c == SkipUnselected(s, s.nextItem, rev)
    IN IF c = CursorNull
       THEN [s EXCEPT !.nextItem = CursorNull, !.ret = RetNull]
       ELSE LET i == CursorValue(s, c)
            IN [s EXCEPT !.flags[i] = @ \ {FLAG_SELECTED},
                         !.nextItem = CursorStep(s, c, rev),
                         !.selectedIndex = @ + 1,
                         !.selectedCount = @ - 1,
                         !.ret = RetItem(i, s.selectedIndex + 1)]

\* Mutant of getNextSelected: the item returned keeps its SELECTED flag.
getNextSelected_KeepFlag(s, arg) ==
    LET rev == Reverse(s, arg)
        c == SkipUnselected(s, s.nextItem, rev)
    IN IF c = CursorNull
       THEN [s EXCEPT !.nextItem = CursorNull, !.ret = RetNull]
       ELSE LET i == CursorValue(s, c)
            IN [s EXCEPT !.nextItem = CursorStep(s, c, rev),
                         !.selectedIndex = @ + 1,
                         !.selectedCount = @ - 1,
                         !.ret = RetItem(i, s.selectedIndex)]

\* getNextSelected (isReverse)
getNextSelected(s, arg) ==
    LET rev == Reverse(s, arg)
        c == SkipUnselected(s, s.nextItem, rev)
    IN IF c = CursorNull
       THEN [s EXCEPT !.nextItem = CursorNull, !.ret = RetNull]
       ELSE LET i == CursorValue(s, c)
            IN [s EXCEPT !.flags[i] = @ \ {FLAG_SELECTED},
                         !.nextItem = CursorStep(s, c, rev),
                         !.selectedIndex = @ + 1,
                         !.selectedCount = @ - 1,
                         !.ret = RetItem(i, s.selectedIndex)]

\* releaseSelected (): calls getNextSelected () while selectedCount > 0.  When
\* a call returns null with selectedCount still positive nothing changes any
\* more and the loop never ends: the result is marked by RetHang.
RetHang == Ret("hang", 0, 0)

RECURSIVE releaseSelected(_)
releaseSelected(s) ==
    IF s.selectedCount <= 0 THEN [s EXCEPT !.ret = RetVoid]
    ELSE LET t == getNextSelected(s, "null")
         IN IF t.ret = RetNull
            THEN [t EXCEPT !.ret = RetHang]
            ELSE releaseSelected(t)

\* Mutant of countItems: the selection is not released.
countItems_NoRelease(s, rect, filter) == selectItems(s, rect, filter, "null")

\* countItems (rect, filter)
countItems(s, rect, filter) ==
    LET s1 == selectItems(s, rect, filter, "null")
        s2 == releaseSelected(s1)
    IN IF s2.ret = RetHang THEN s2 ELSE [s2 EXCEPT !.ret = s1.ret]

\* Mutant of detectCollisions: only the root makes its tests.
detectCollisions_RootOnly(s, filter, forced) ==
    [s EXCEPT !.collided =
        [pr \in Pairs |->
            IF /\ pr[1] \in filter /\ pr[2] \in filter
               /\ RectIntersects(s.bounds[pr[1]], s.bounds[pr[2]])
            THEN TestsWithin(s, Root, pr[1], pr[2])
            ELSE 0],
              !.ret = RetVoid]

\* detectCollisions (handler, forced)
detectCollisions(s, filter, forced) ==
    [NodeDetectCollisions(s, filter, forced) EXCEPT !.ret = RetVoid]

\* setReverse (value)
setReverse(s, value) == [s EXCEPT !.isReverse = value, !.ret = RetVoid]

\* ------------------------------------------------------------- behaviour
Booleans == {TRUE, FALSE}

\* new QuadTree (0, 0, WorldSize, WorldSize, cap), and the items of the
\* callers, not yet attached.
New(cap) ==
    [bounds |-> [i \in Items |-> RectNW],
     insertionBounds |-> [i \in Items |-> RectNW],
     zindex |-> Layers,
     flags |-> [i \in Items |-> {}],
     node |-> [i \in Items |-> NoNode],
     split |-> {},
     held |-> [p \in {Root} |-> NoItems],
     items |-> NoItems,
     orderedItems |-> << >>,
     updateQueue |-> << >>,
     nodeCapacity |-> cap,
     nextItem |-> CursorNull,
     selectedCount |-> 0,
     selectedIndex |-> 0,
     isReverse |-> FALSE,
     dirs |-> [xd |-> FALSE, yd |-> FALSE, zd |-> FALSE],
     fnComparator |-> "YX",
     notified |-> << >>,
     collided |-> NoPairs,
     updating |-> FALSE,
     ret |-> RetVoid]

\* The System and Timer objects where only a QuadTree is used.
NoSystem == [kind |-> "none"]
NoTimer == [kind |-> "none"]

\* The variables of the QuadTree hold state s.
IsTree(new) ==
    \E s \in {new} :
    /\ bounds = s.bounds
    /\ insertionBounds = s.insertionBounds
    /\ zindex = s.zindex
    /\ flags = s.flags
    /\ node = s.node
    /\ split = s.split
    /\ held = s.held
    /\ items = s.items
    /\ orderedItems = s.orderedItems
    /\ updateQueue = s.updateQueue
    /\ nodeCapacity = s.nodeCapacity
    /\ nextItem = s.nextItem
    /\ selectedCount = s.selectedCount
    /\ selectedIndex = s.selectedIndex
    /\ isReverse = s.isReverse
    /\ dirs = s.dirs
    /\ fnComparator = s.fnComparator
    /\ notified = s.notified
    /\ collided = s.collided
    /\ updating = s.updating
    /\ ret = s.ret

\* The variables hold state s, no System or Timer being used.
Is(new) == IsTree(new) /\ system = NoSystem /\ timer = NoTimer

NodeCapacities == {1, 2}

Init == \E cap \in NodeCapacities : Is(New(cap))

\* A tree configured before any item is added: setComparator and setXd, setYd,
\* setZd called on the new tree.
Configured(cap, c, d) == [New(cap) EXCEPT !.fnComparator = c, !.dirs = d]

\* A tree populated by addItem calls: seq is a sequence of <<item, bounds>>
\* pairs, the items distinct, added in that order.
RECURSIVE Populate(_, _)
Populate(s, seq) ==
    IF seq = << >> THEN s
    ELSE LET i == Head(seq)[1]
             b == Head(seq)[2]
         IN Populate(addItem([s EXCEPT !.bounds[i] = b], i), Tail(seq))

Placements(rects) ==
    {seq \in UNION {[1 .. n -> Items \X rects] : n \in 0 .. NumItems} :
        \A j, k \in 1 .. Len(seq) : j # k => seq[j][1] # seq[k][1]}

\* The owner of a detached item places it (item.bounds = b) and adds it.
AddItem(i, b) ==
    /\ FLAG_ATTACHED \notin flags[i]
    /\ Commit(addItem([State EXCEPT !.bounds[i] = b], i))

\* addItem on an item that is attached already.
ReAddItem(i) ==
    /\ FLAG_ATTACHED \in flags[i]
    /\ Len(orderedItems) < MaxList
    /\ Commit(addItem(State, i))

RemoveItem(i) == Commit(removeItem(State, i))

\* The owner moves the item (item.bounds = b) and calls updateItem.
UpdateItem(i, b) ==
    /\ Commit(updateItem([State EXCEPT !.bounds[i] = b], i))

Update == Commit(update(State))

SetXd(v) == Commit(setXd(State, v))
SetYd(v) == Commit(setYd(State, v))
SetZd(v) == Commit(setZd(State, v))
SetComparator(c) == Commit(setComparator(State, c))
ReorderItems == Commit(reorderItems(State))
SetReverse(v) == Commit(setReverse(State, v))

SelectItems(rect, filter, arg) == Commit(selectItems(State, rect, filter, arg))
GetNextSelected(arg) == Commit(getNextSelected(State, arg))
ReleaseSelected == Commit(releaseSelected(State))
CountItems(rect, filter) == Commit(countItems(State, rect, filter))
DetectCollisions(filter, forced) == Commit(detectCollisions(State, filter, forced))

\* The comparators the callers switch between.
Comparators == {"YX", "XY", "Y2"}

\* Attaching, moving and detaching items whose owners place them in rects.
Attach(rects) ==
    \/ \E i \in Items, b \in rects : AddItem(i, b)
    \/ \E i \in Items : RemoveItem(i)
    \/ \E i \in Items, b \in rects : UpdateItem(i, b)

\* Adding items that are attached already.
ReAdd == \E i \in Items : ReAddItem(i)

\* Changing the draw order.
Order ==
    \/ \E v \in Booleans : SetXd(v)
    \/ \E v \in Booleans : SetYd(v)
    \/ \E v \in Booleans : SetZd(v)
    \/ \E c \in Comparators : SetComparator(c)
    \/ ReorderItems

\* Selections, the isReverse arguments drawn from args.
Select(args) ==
    \/ \E v \in Booleans : SetReverse(v)
    \/ \E rect \in QueryRects, filter \in SUBSET Items, arg \in args :
          SelectItems(rect, filter, arg)
    \/ \E arg \in args : GetNextSelected(arg)
    \/ ReleaseSelected
    \/ \E rect \in QueryRects, filter \in SUBSET Items : CountItems(rect, filter)

\* Items moving inside and outside the extents, and the update cycle.
AttachRects == {RectNW, RectMid, RectOut}
Spec == Init /\ [][Attach(AttachRects) \/ Update]_vars

\* The same with items added while attached.
ReAddRects == {RectNW, RectOut}
SpecReAdd == Init /\ [][Attach(ReAddRects) \/ ReAdd]_vars

\* Populated trees, with ties on y1, on x1 and on both, under changing
\* comparators and axis flags.
OrderRects == {RectNW, RectNE, RectSW}
InitOrder ==
    \E cap \in NodeCapacities, seq \in Placements(OrderRects) :
        Is(Populate(New(cap), seq))
SpecOrder == InitOrder /\ [][Order]_vars

\* Trees configured once, then items attached, moved and detached.
InitFixed ==
    \E cap \in NodeCapacities, c \in Comparators, xd, yd, zd \in Booleans :
        Is(Configured(cap, c, [xd |-> xd, yd |-> yd, zd |-> zd]))
SpecFixed == InitFixed /\ [][Attach(OrderRects)]_vars

\* A tree populated by updateItem calls, which attach the items and queue them.
RECURSIVE PopulateQueued(_, _)
PopulateQueued(s, seq) ==
    IF seq = << >> THEN s
    ELSE LET i == Head(seq)[1]
             b == Head(seq)[2]
         IN PopulateQueued(updateItem([s EXCEPT !.bounds[i] = b], i), Tail(seq))

\* Selections over populated trees, the items in different nodes and queued.
SelectRects == {RectNW, RectMid}
InitSelect ==
    \E cap \in NodeCapacities, seq \in Placements(SelectRects) :
        /\ \A k \in 1 .. Len(seq) : seq[k][1] = k
        /\ Is(PopulateQueued(New(cap), seq))
SpecSelect == InitSelect /\ [][Select({"null"})]_vars

\* Items detached while a selection of everything is being walked.
Live ==
    \/ SelectItems(NullRect, Items, "null")
    \/ GetNextSelected("null")
    \/ \E i \in Items : RemoveItem(i)
SpecLive == InitSelect /\ [][Live]_vars

\* The update cycle: items moved (inside and outside the extents), removed,
\* and notified by update ().
NotifyRects == {RectNW, RectOut}
Notify ==
    \/ \E i \in Items, b \in NotifyRects : UpdateItem(i, b)
    \/ \E i \in Items : RemoveItem(i)
    \/ Update
SpecNotify == Init /\ [][Notify]_vars

\* The list reordered while items are selected and queued.
Reorder ==
    \/ \E rect \in QueryRects : SelectItems(rect, Items, "null")
    \/ GetNextSelected("null")
    \/ \E v \in Booleans : SetYd(v)
    \/ \E c \in {"YX", "XY"} : SetComparator(c)
    \/ ReorderItems
SpecReorder == InitSelect /\ [][Reorder]_vars

\* Selections walked with the isReverse argument given or left to the tree's
\* setting; nothing is called after a releaseSelected () that does not return.
Direction ==
    /\ ret # RetHang
    /\ \/ \E v \in Booleans : SetReverse(v)
       \/ \E rect \in QueryRects, arg \in RevArgs : SelectItems(rect, Items, arg)
       \/ \E arg \in RevArgs : GetNextSelected(arg)
       \/ ReleaseSelected
SpecDirection == InitSelect /\ [][Direction]_vars

\* Collision passes over trees whose items overlap within a node and across
\* the levels of the tree: RectIn is inside the north-west quadrant and
\* overlaps RectMid, which straddles the split lines of the root.
RectIn == Rect(2, 2, 4, 4)
CollideRects == {RectIn, RectMid, RectNE}
InitCollide ==
    \E cap \in NodeCapacities, seq \in Placements(CollideRects) :
        Is(Populate(New(cap), seq))
Collide ==
    \/ \E filter \in SUBSET Items, forced \in Booleans : DetectCollisions(filter, forced)
    \/ \E i \in Items : RemoveItem(i)
SpecCollide == InitCollide /\ [][Collide]_vars

\* Whole-world queries between additions and removals, over trees of either
\* capacity, subdivided or not, with selections left undrained.
CountRects == {RectNW, RectMid}
Count ==
    \/ \E i \in Items, b \in CountRects : AddItem(i, b)
    \/ \E i \in Items : RemoveItem(i)
    \/ SelectItems(NullRect, Items, "null")
    \/ CountItems(NullRect, Items)
SpecCount == Init /\ [][Count]_vars

\* Trees configured once, whose items lie on layers chosen by their owners,
\* then items added and removed: every addItem compares the new item with the
\* items of the list.
LayerPlans == {Layers, [i \in Items |-> i % 2]}
CompareRects == {RectNW, RectNE}
InitCompare ==
    \E c \in AllComparators, xd, yd, zd \in Booleans, z \in LayerPlans :
        Is([Configured(1, c, [xd |-> xd, yd |-> yd, zd |-> zd]) EXCEPT !.zindex = z])
Compare ==
    \/ \E i \in Items, b \in CompareRects : AddItem(i, b)
    \/ \E i \in Items : RemoveItem(i)
SpecCompare == InitCompare /\ [][Compare]_vars

\* A caller that keeps one selection live at a time: a selection is live from
\* selectItems until getNextSelected () returns null or releaseSelected ()
\* returns, and the other calls are made only between selections.
SelectionLive == ret.kind \in {"int", "item"}
DrainRects == {RectNW, RectMid}
DrainFilters == {Items, {1}}
Drained ==
    \/ /\ ~SelectionLive
       /\ \/ \E i \in Items, b \in DrainRects : AddItem(i, b)
          \/ \E i \in Items : RemoveItem(i)
          \/ \E v \in Booleans : SetReverse(v)
          \/ \E rect \in QueryRects, filter \in DrainFilters :
                SelectItems(rect, filter, "null")
    \/ /\ SelectionLive
       /\ \/ GetNextSelected("null")
          \/ ReleaseSelected
SpecDrained == Init /\ [][Drained]_vars

\* Items attached by updateItem, moved, detached while they are queued, and
\* notified: RectMid stays at the root when the root subdivides.
RequeueRects == {RectMid, RectOut}
Requeue ==
    \/ \E i \in Items, b \in RequeueRects : UpdateItem(i, b)
    \/ \E i \in Items : RemoveItem(i)
    \/ Update
SpecRequeue == Init /\ [][Requeue]_vars

\* Selections of everything and of an empty region, started whether or not
\* the previous one was drained, between additions and removals of items and
\* moves of the first of them; nothing is called after a releaseSelected ()
\* that does not return.
CountedRects == {RectNW}
CountedQueries == {NullRect, Rect(5, 0, 8, 8)}
InitCounted == Is(New(1))
Counted ==
    /\ ret # RetHang
    /\ \/ \E i \in Items, b \in CountedRects : AddItem(i, b)
       \/ \E i \in Items : RemoveItem(i)
       \/ \E b \in CountedRects : UpdateItem(1, b)
       \/ \E rect \in CountedQueries : SelectItems(rect, Items, "null")
       \/ GetNextSelected("null")
       \/ ReleaseSelected
SpecCounted == InitCounted /\ [][Counted]_vars

\* update () taken one iteration at a time, with notifyPosition () callbacks
\* that call updateItem: the log of the call in progress is kept from one
\* iteration to the next.  A callback calls the tree only in the first
\* MaxNotify notifications of an update (); an exception thrown by its
\* updateItem leaves update ().
MaxNotify == 2
Running == [State EXCEPT !.notified = notified]
UpdateEnter ==
    /\ ~updating
    /\ Commit([State EXCEPT !.updating = TRUE])
UpdateTurn(cb) ==
    /\ updating
    /\ updateQueue # << >>
    /\ cb # NoItem => Len(notified) < MaxNotify
    /\ LET t == updateTurn(Running, cb)
       IN Commit(IF t.ret = RetThrow THEN [t EXCEPT !.updating = FALSE] ELSE t)
UpdateReturn ==
    /\ updating
    /\ updateQueue = << >>
    /\ Commit([Running EXCEPT !.updating = FALSE, !.ret = RetVoid])
UpdateRun ==
    \/ \E cb \in Items \cup {NoItem} : UpdateTurn(cb)
    \/ UpdateReturn

\* The update cycle with such callbacks; between two update () calls items
\* are moved by updateItem, inside and outside the extents, and removed.  A
\* callback's updateItem throws for an item that was left outside.
UpdatingRects == {RectNW, RectOut}
InitUpdating == Is(New(1))
Updating ==
    \/ /\ ~updating
       /\ \/ \E i \in Items, b \in UpdatingRects : UpdateItem(i, b)
          \/ \E i \in Items : RemoveItem(i)
    \/ UpdateEnter
    \/ UpdateRun
SpecUpdating == InitUpdating /\ [][Updating]_vars /\ WF_vars(UpdateRun)

\* root.clear (): the sub-nodes are destroyed and the root holds nothing; the
\* items are destroyed with them, none stays attached.  A destroyed item that
\* is still referenced (by the selection cursor) is read after its
\* destruction: stale tells whether it still shows the SELECTED and QUEUED
\* flags it had.
NodeClear(s, stale) ==
    [s EXCEPT !.split = {},
              !.held = [p \in {Root} |-> NoItems],
              !.items = NoItems,
              !.node = [i \in Items |-> NoNode],
              !.flags = [i \in Items |->
                            IF stale THEN @[i] \ {FLAG_ATTACHED} ELSE {}]]

\* list.reset (): the list is empty; a Linkable that was in it is in no list.
reset(list) == << >>
CursorAfterReset(c, list) == IF c > 0 THEN CursorOff(list[c]) ELSE c

\* clear (): nextItem, selectedCount and selectedIndex are not assigned.
clear(s, stale) ==
    LET t == NodeClear(s, stale)
    IN [t EXCEPT !.orderedItems = reset(@),
                 !.updateQueue = reset(@),
                 !.nextItem = CursorAfterReset(@, s.orderedItems),
                 !.ret = RetVoid]

Clear(stale) == Commit(clear(State, stale))

\* Selections and pending updates interrupted by clear; the items it destroyed
\* are not used again by their owners.
Cleared ==
    \/ \E i \in Items : FLAG_ATTACHED \in flags[i] /\ UpdateItem(i, RectNW)
    \/ \E rect \in QueryRects : SelectItems(rect, Items, "null")
    \/ GetNextSelected("null")
    \/ \E stale \in Booleans : Clear(stale)
SpecClear == InitSelect /\ [][Cleared]_vars

\* --------------------------------------------------------------- System
\* system/system.js.  Times are integers in milliseconds; a value in seconds
\* is the fraction num / den it is computed as.
Frac(n, d) == [num |-> n, den |-> d]

\* The handlers the application puts in the update and draw queues, and the
\* handler made by System.interpolate.
NumHandlers == 2
Handlers == 1 .. NumHandlers
Interpolator == 0

\* What a handler's update () does when called: nothing to the System, remove
\* itself from the update queue, or throw; and what its draw () does.
UpdatePlans == [Handlers -> {"ok", "remove", "throw"}]
DrawPlans == [Handlers -> {"ok", "throw"}]

NoInterpolator == [active |-> FALSE]

\* System after init (opts): queues made, the frame timer made and not
\* started, onWindowResized (true) has cleared flags.renderingEnabled.
NewSystem(maxFrameInterval) ==
    [kind |-> "System",
     renderingEnabled |-> FALSE,
     renderingPaused |-> FALSE,
     updateQueue |-> << >>,
     drawQueue |-> << >>,
     timeScale |-> 1,
     fixedFrameInterval |-> 0,
     maxFrameInterval |-> maxFrameInterval,
     frameDelta |-> Frac(0, 1000),
     frameDeltaMillis |-> 0,
     frameTime |-> Frac(0, 1000),
     frameTimeMillis |-> 0,
     frameNumber |-> 0,
     frameUpdateInProgress |-> FALSE,
     frameDrawInProgress |-> FALSE,
     numFrames |-> 0,
     frameTimerIsRunning |-> FALSE,
     interpolator |-> NoInterpolator,
     ran |-> << >>,
     called |-> << >>,
     thrown |-> FALSE]

\* A call starts with nothing run, no handler called and nothing thrown.
Called(s) == [s EXCEPT !.ran = << >>, !.called = << >>, !.thrown = FALSE]

\* start (): onWindowResized () sets flags.renderingEnabled.
System_start(s) ==
    [Called(s) EXCEPT !.renderingEnabled = TRUE,
                      !.renderingPaused = FALSE,
                      !.frameTimerIsRunning = TRUE]

System_stop(s) ==
    [s EXCEPT !.renderingPaused = TRUE, !.frameTimerIsRunning = FALSE]

pause(s) == [Called(s) EXCEPT !.renderingPaused = TRUE]

\* Mutant of resume: the flag is left set.
resume_KeepPaused(s) == [Called(s) EXCEPT !.numFrames = 0]

\* resume (): resetPerf () clears perf.numFrames.
resume(s) == [Called(s) EXCEPT !.renderingPaused = FALSE, !.numFrames = 0]

updateQueueAdd(s, handler) == [s EXCEPT !.updateQueue = push(@, handler)]

\* updateQueueRemove (handler): the first Linkable holding the handler.
updateQueueRemove(s, handler) ==
    [s EXCEPT !.updateQueue = remove(@, sgetNode(@, handler))]

drawQueueAdd(s, handler) == [s EXCEPT !.drawQueue = push(@, handler)]
drawQueueRemove(s, handler) ==
    [s EXCEPT !.drawQueue = remove(@, sgetNode(@, handler))]

\* The easing functions the callers pass, applied to time / duration.
Easings == {"linear", "quad"}
Ease(e, time, duration) ==
    IF e = "linear" THEN Frac(time, duration)
    ELSE Frac(time * time, duration * duration)

\* (1-t)*a + t*b
Mix(t, a, b) == Frac((t.den - t.num) * a + t.num * b, t.den)

\* Mutant of interpolator.update: the handler stays in the queue when done.
interpolator_update_Stay(s, dt) ==
    LET p == s.interpolator
        K == DOMAIN p.src
        skipped == {x \in K : p.time[x] = p.duration[x]}
        time == [x \in K |->
                    IF x \in skipped THEN p.time[x]
                    ELSE IF p.time[x] + dt.num >= p.duration[x]
                         THEN p.duration[x]
                         ELSE p.time[x] + dt.num]
        ended == {x \in K \ skipped : p.time[x] + dt.num >= p.duration[x]}
        count == p.count - Cardinality(ended)
        data == [x \in K |->
                    IF x \in skipped THEN p.data[x]
                    ELSE Mix(Ease(p.easing[x], time[x], p.duration[x]),
                             p.src[x], p.dst[x])]
    IN [s EXCEPT !.interpolator.time = time,
                 !.interpolator.data = data,
                 !.interpolator.count = count,
                 !.interpolator.delivered = @ + dt.num,
                 !.interpolator.calls =
                     Append(@, [data |-> data, isFinished |-> count = 0])]

\* interpolator.update (dt), dt in seconds (a fraction over 1000).  calls
\* lists the callback (data, isFinished) calls made since interpolate, and
\* delivered is the sum of the dt received.
interpolator_update(s, dt) ==
    LET p == s.interpolator
        K == DOMAIN p.src
        skipped == {x \in K : p.time[x] = p.duration[x]}
        time == [x \in K |->
                    IF x \in skipped THEN p.time[x]
                    ELSE IF p.time[x] + dt.num >= p.duration[x]
                         THEN p.duration[x]
                         ELSE p.time[x] + dt.num]
        ended == {x \in K \ skipped : p.time[x] + dt.num >= p.duration[x]}
        count == p.count - Cardinality(ended)
        data == [x \in K |->
                    IF x \in skipped THEN p.data[x]
                    ELSE Mix(Ease(p.easing[x], time[x], p.duration[x]),
                             p.src[x], p.dst[x])]
        s1 == [s EXCEPT !.interpolator.time = time,
                        !.interpolator.data = data,
                        !.interpolator.count = count,
                        !.interpolator.delivered = @ + dt.num,
                        !.interpolator.calls =
                            Append(@, [data |-> data, isFinished |-> count = 0])]
    IN IF count = 0 THEN updateQueueRemove(s1, Interpolator) ELSE s1

\* interpolate (src, dst, duration, easing, callback): times in thousandths
\* of a second.
interpolate(s, src, dst, duration, easing) ==
    LET K == DOMAIN src
        p == [active |-> TRUE, src |-> src, dst |-> dst,
              duration |-> duration, easing |-> easing,
              time |-> [x \in K |-> 0],
              data |-> [x \in K |-> Frac(src[x], 1)],
              count |-> Cardinality(K),
              delivered |-> 0,
              calls |-> << >>]
        s1 == [Called(s) EXCEPT !.interpolator = p]
    IN interpolator_update(updateQueueAdd(s1, Interpolator), Frac(0, 1000))

\* The record of a handler call: which handler, which method, and the
\* in-progress flags it could read.
Call(s, h, op) ==
    [handler |-> h, op |-> op,
     frameUpdateInProgress |-> s.frameUpdateInProgress,
     frameDrawInProgress |-> s.frameDrawInProgress]

\* The Linkable saved in next before the call, after the call unlinked
\* entries of the list: those entries are at or before the current one.
Following(next, before, after) ==
    IF next = 0 THEN 0 ELSE next - (Len(before) - Len(after))

\* Mutant of update: next is read after the call.
RECURSIVE System_updateFrom_NextAfter(_, _, _, _)
System_updateFrom_NextAfter(s, elem, dts, plan) ==
    IF elem = 0 THEN s
    ELSE LET h == s.updateQueue[elem]
             s1 == [s EXCEPT !.called = Append(@, Call(s, h, "update"))]
             s2 == IF h = Interpolator THEN interpolator_update(s1, dts)
                   ELSE IF plan[h] = "remove" THEN updateQueueRemove(s1, h)
                   ELSE IF plan[h] = "throw" THEN [s1 EXCEPT !.thrown = TRUE]
                   ELSE s1
             next == IF Len(s2.updateQueue) < Len(s1.updateQueue) THEN 0
                     ELSE IF elem = Len(s2.updateQueue) THEN 0 ELSE elem + 1
         IN IF s2.thrown THEN s2
            ELSE System_updateFrom_NextAfter(s2, next, dts, plan)

\* update (dts, dtm): the loop from elem on.  A throw leaves the loop.
RECURSIVE System_updateFrom(_, _, _, _)
System_updateFrom(s, elem, dts, plan) ==
    IF elem = 0 THEN s
    ELSE LET h == s.updateQueue[elem]
             next == IF elem = Len(s.updateQueue) THEN 0 ELSE elem + 1
             s1 == [s EXCEPT !.called = Append(@, Call(s, h, "update"))]
             s2 == IF h = Interpolator THEN interpolator_update(s1, dts)
                   ELSE IF plan[h] = "remove" THEN updateQueueRemove(s1, h)
                   ELSE IF plan[h] = "throw" THEN [s1 EXCEPT !.thrown = TRUE]
                   ELSE s1
         IN IF s2.thrown THEN s2
            ELSE System_updateFrom(s2,
                    Following(next, s1.updateQueue, s2.updateQueue), dts, plan)

System_update(s, dts, dtm, plan) ==
    System_updateFrom([s EXCEPT !.ran = Append(@, "update")],
                      IF s.updateQueue = << >> THEN 0 ELSE 1, dts, plan)

\* draw (canvas, canvas2)
RECURSIVE System_drawFrom(_, _, _)
System_drawFrom(s, elem, plan) ==
    IF elem = 0 THEN s
    ELSE LET h == s.drawQueue[elem]
             next == IF elem = Len(s.drawQueue) THEN 0 ELSE elem + 1
             s1 == [s EXCEPT !.called = Append(@, Call(s, h, "draw"))]
         IN IF plan[h] = "throw" THEN [s1 EXCEPT !.thrown = TRUE]
            ELSE System_drawFrom(s1, next, plan)

System_draw(s, plan) ==
    System_drawFrom([s EXCEPT !.ran = Append(@, "draw")],
                    IF s.drawQueue = << >> THEN 0 ELSE 1, plan)

\* Mutant of the delta: the maximum is not applied.
FrameDelta_NoMax(s, delta) ==
    LET d2 == IF s.fixedFrameInterval # 0 THEN s.fixedFrameInterval ELSE delta
    IN d2 * s.timeScale

\* The delta onFrame (delta, timer) works with.
FrameDelta(s, delta) ==
    LET d1 == IF delta > s.maxFrameInterval THEN s.maxFrameInterval ELSE delta
        d2 == IF s.fixedFrameInterval # 0 THEN s.fixedFrameInterval ELSE d1
    IN d2 * s.timeScale

\* onFrame (delta, timer).  thrown tells that the call ended by a throw; in the
\* paused branch the exception of draw is caught and logged.
onFrame(s, delta, uplan, dplan) ==
    LET s0 == Called(s)
    IN IF ~s0.renderingEnabled \/ s0.renderingPaused
       THEN LET d == System_draw([s0 EXCEPT !.frameDrawInProgress = TRUE], dplan)
            IN [d EXCEPT !.frameDrawInProgress = FALSE, !.thrown = FALSE]
       ELSE LET dtm == FrameDelta(s0, delta)
                s1 == [s0 EXCEPT !.frameDeltaMillis = dtm,
                                 !.frameDelta = Frac(dtm, 1000),
                                 !.frameTimeMillis = @ + dtm,
                                 !.frameTime = Frac(@.num + dtm, 1000),
                                 !.frameNumber = @ + 1,
                                 !.frameUpdateInProgress = TRUE]
                u == System_update(s1, s1.frameDelta, s1.frameDeltaMillis, uplan)
            IN IF u.thrown THEN System_stop(u)
               ELSE LET d == System_draw(
                                [u EXCEPT !.frameUpdateInProgress = FALSE,
                                          !.frameDrawInProgress = TRUE], dplan)
                    IN IF d.thrown THEN System_stop(d)
                       ELSE [d EXCEPT !.frameDrawInProgress = FALSE,
                                      !.numFrames = @ + 1]

\* A call on the System: the QuadTree and the Timer are not touched.
Sys(new) == system' = new /\ UNCHANGED <<treeVars, timer>>

SystemStart == Sys(System_start(system))
SystemStop == Sys(System_stop(Called(system)))
Pause == Sys(pause(system))
Resume == Sys(resume(system))

\* The application assigns System.timeScale and System.fixedFrameInterval.
SetTimeScale(v) == Sys([Called(system) EXCEPT !.timeScale = v])
SetFixedFrameInterval(v) == Sys([Called(system) EXCEPT !.fixedFrameInterval = v])

\* queueAdd (handler), by a handler that is in neither queue.
QueueAdd(h) ==
    /\ sgetNode(system.updateQueue, h) = 0
    /\ sgetNode(system.drawQueue, h) = 0
    /\ Sys(drawQueueAdd(updateQueueAdd(Called(system), h), h))

\* The frame timer calls onFrame while it is running.
MaxFrames == 2
OnFrame(delta, uplan, dplan) ==
    /\ system.frameTimerIsRunning
    /\ system.frameNumber < MaxFrames
    /\ Sys(onFrame(system, delta, uplan, dplan))

\* The frame loop with the application pausing and resuming it, the handlers
\* throwing or not.
MaxFrameIntervals == {2}
Deltas == {1, 3}
InitSystem ==
    /\ IsTree(New(1))
    /\ timer = NoTimer
    /\ \E m \in MaxFrameIntervals : system = NewSystem(m)
Frames ==
    \/ SystemStart
    \/ SystemStop
    \/ Pause
    \/ Resume
    \/ \E h \in Handlers : QueueAdd(h)
    \/ \E delta \in Deltas, uplan, dplan \in DrawPlans :
          OnFrame(delta, uplan, dplan)
SpecFrames == InitSystem /\ [][Frames]_vars

\* The frame loop without handlers, the application changing the time scale
\* and the fixed frame interval.
TimeScales == {0, 1, 2}
FixedFrameIntervals == {0, 1, 3}
NoPlan == [h \in Handlers |-> "ok"]
Scaled ==
    \/ SystemStart
    \/ Pause
    \/ Resume
    \/ \E v \in TimeScales : SetTimeScale(v)
    \/ \E v \in FixedFrameIntervals : SetFixedFrameInterval(v)
    \/ \E delta \in Deltas : OnFrame(delta, NoPlan, NoPlan)
SpecScaled == InitSystem /\ [][Scaled]_vars

\* update cycles over a queue the application adds handlers to, a handler
\* possibly more than once; the handlers stay, remove themselves or throw.
UpdateQueueAdd(h) ==
    /\ Len(system.updateQueue) < MaxList
    /\ Sys(updateQueueAdd(Called(system), h))
UpdateQueueRemove(h) == Sys(updateQueueRemove(Called(system), h))

\* interpolate (...), one interpolation at a time.
NumKeys == 2
Keys == 1 .. NumKeys
Durations == {0, 1, 2}
Sources == {1}
Targets == {3}
Interpolate(src, dst, duration, easing) ==
    /\ Occurrences(system.updateQueue, Interpolator) = 0
    /\ Len(system.updateQueue) < MaxList
    /\ Sys(interpolate(system, src, dst, duration, easing))

\* System.update with one thousandth of a second; the cycles counted while
\* an interpolation is in the queue are bounded.
MaxCycles == 3
Tick == Frac(1, 1000)
SystemUpdate(plan) ==
    /\ Occurrences(system.updateQueue, Interpolator) > 0
          => system.interpolator.delivered < MaxCycles
    /\ Sys(System_update(Called(system), Tick, 1, plan))
\* The interpolation started among the handlers: one key, over two ticks.
OneKey == [x \in {1} |-> 1]
Queued ==
    \/ \E h \in Handlers : UpdateQueueAdd(h)
    \/ \E h \in Handlers : UpdateQueueRemove(h)
    \/ Interpolate(OneKey, [x \in {1} |-> 3], [x \in {1} |-> 2],
                   [x \in {1} |-> "linear"])
    \/ \E plan \in UpdatePlans : SystemUpdate(plan)
SpecQueued == InitSystem /\ [][Queued]_vars

\* Interpolations alone in the queue, over every choice of keys, durations
\* and easing functions.
Interpolated ==
    \/ \E K \in SUBSET Keys :
          \E src \in [K -> Sources], dst \in [K -> Targets],
             duration \in [K -> Durations], easing \in [K -> Easings] :
                Interpolate(src, dst, duration, easing)
    \/ SystemUpdate(NoPlan)
SpecInterpolated == InitSystem /\ [][Interpolated]_vars

\* ---------------------------------------------------------------- Timer
\* system/timer.js.  now is the clock hrnow () reads, in milliseconds; pending
\* holds the times at which the timeouts given to setTimeout are due, in the
\* order they were set.  called counts the callback invocations of the last
\* call and last names that call.
NewTimer(interval, highPerformance) ==
    [kind |-> "Timer",
     interval |-> interval,
     highPerformance |-> highPerformance,
     isRunning |-> FALSE,
     startTime |-> 0, sTime |-> 0, lTime |-> 0, lastTime |-> 0,
     pending |-> << >>,
     now |-> 0,
     called |-> 0,
     last |-> "new"]

\* runAfter (timeout): setTimeout (() => this.onTimeout (), timeout)
runAfter(t, timeout) == [t EXCEPT !.pending = Append(@, t.now + timeout)]

\* this.callback (delta, this): the callback returns, or calls stop () on the
\* timer and returns.
Callbacks == {"ok", "stop"}
callback(t, cb) ==
    IF cb = "stop" THEN [t EXCEPT !.called = @ + 1, !.isRunning = FALSE]
    ELSE [t EXCEPT !.called = @ + 1]

\* Mutant of onTimeout: isRunning is not looked at.
onTimeout_Always(t0, cb) ==
    LET t == [t0 EXCEPT !.called = 0, !.last = "onTimeout"]
    IN IF t.highPerformance
       THEN LET targetTime == t.lastTime + t.interval
                curTime == IF t.now < targetTime THEN targetTime ELSE t.now
                t1 == [t EXCEPT !.now = curTime, !.lastTime = curTime]
            IN runAfter(callback(t1, cb), 0)
       ELSE LET rTime == t.now - t.startTime
                tError == rTime - (t.sTime + t.interval)
            IN IF tError < 0 THEN runAfter(t, 0 - tError)
               ELSE LET t1 == [t EXCEPT
                                 !.sTime = @ + t.interval
                                              * (1 + (tError \div t.interval)),
                                 !.lTime = rTime]
                        t2 == callback(t1, cb)
                    IN runAfter(t2, (t2.sTime + t2.interval)
                                       - (t2.now - t2.startTime))

\* onTimeout ().  The high performance timer waits on the clock until the
\* target time.
onTimeout(t0, cb) ==
    LET t == [t0 EXCEPT !.called = 0, !.last = "onTimeout"]
    IN IF ~t.isRunning THEN t
       ELSE IF t.highPerformance
       THEN LET targetTime == t.lastTime + t.interval
                curTime == IF t.now < targetTime THEN targetTime ELSE t.now
                t1 == [t EXCEPT !.now = curTime, !.lastTime = curTime]
            IN runAfter(callback(t1, cb), 0)
       ELSE LET rTime == t.now - t.startTime
                tError == rTime - (t.sTime + t.interval)
            IN IF tError < 0 THEN runAfter(t, 0 - tError)
               ELSE LET t1 == [t EXCEPT
                                 !.sTime = @ + t.interval
                                              * (1 + (tError \div t.interval)),
                                 !.lTime = rTime]
                        t2 == callback(t1, cb)
                    IN runAfter(t2, (t2.sTime + t2.interval)
                                       - (t2.now - t2.startTime))

\* start (immediate, scale), scale = 1.0
Timer_start(t0, immediate, cb) ==
    LET t == [t0 EXCEPT !.called = 0, !.last = "start",
                        !.startTime = t0.now, !.sTime = 0, !.lTime = 0,
                        !.lastTime = t0.now, !.isRunning = TRUE]
        t1 == IF immediate THEN callback(t, cb) ELSE t
    IN runAfter(t1, t1.interval)

Timer_stop(t) == [t EXCEPT !.called = 0, !.last = "stop", !.isRunning = FALSE]

\* The timeout at position k of pending fires: it is pending no more and
\* onTimeout runs.
Fired(t, k) == [t EXCEPT !.pending = remove(@, k)]

\* A call on the Timer: the QuadTree and the System are not touched.
Tim(new) == timer' = new /\ UNCHANGED <<treeVars, system>>

MaxPending == 2
MaxClock == 3
TimerStart(immediate, cb) ==
    /\ Len(timer.pending) < MaxPending
    /\ Tim(Timer_start(timer, immediate, cb))
TimerStop == Tim(Timer_stop(timer))

\* A timeout fires when it is due; the busy wait of a high performance timer
\* stays within the clock's range.
OnTimeout(k, cb) ==
    /\ timer.pending[k] <= timer.now
    /\ timer.highPerformance /\ timer.isRunning
          => timer.lastTime + timer.interval <= MaxClock
    /\ Tim(onTimeout(Fired(timer, k), cb))

\* Time passes.
Advance ==
    /\ timer.now < MaxClock
    /\ Tim([timer EXCEPT !.now = @ + 1, !.called = 0, !.last = "advance"])

Intervals == {1, 2}
InitTimer ==
    /\ IsTree(New(1))
    /\ system = NoSystem
    /\ \E interval \in Intervals, highPerformance \in Booleans :
          timer = NewTimer(interval, highPerformance)
Timed ==
    \/ \E immediate \in Booleans, cb \in Callbacks : TimerStart(immediate, cb)
    \/ TimerStop
    \/ \E k \in 1 .. Len(timer.pending), cb \in Callbacks : OnTimeout(k, cb)
    \/ Advance
SpecTimed == InitTimer /\ [][Timed]_vars

\* ------------------------------------------------------------ properties
\* The properties are stated of every state a specification reaches and of
\* every call that can be made in it: op (State, ...) is the state the call
\* leaves, and its ret field what the call returned.

Attached(i) == FLAG_ATTACHED \in flags[i]
NoneSelected == \A i \in Items : FLAG_SELECTED \notin flags[i]

\* The owner places item i at b and calls addItem / updateItem.
AfterAddItem(i, b) == addItem([State EXCEPT !.bounds[i] = b], i)
AfterUpdateItem(i, b) == updateItem([State EXCEPT !.bounds[i] = b], i)

\* States s and t differ at most in ret (and in the fields named).
SameButRet(s, t) == [s EXCEPT !.ret = RetVoid] = [t EXCEPT !.ret = RetVoid]
SameButBoundsRet(s, t, i) ==
    [s EXCEPT !.ret = RetVoid, !.bounds[i] = RectNW]
        = [t EXCEPT !.ret = RetVoid, !.bounds[i] = RectNW]

\* C1: after any sequence of addItem, removeItem and updateItem calls
\* (addItem on attached items included) the attached-items list and
\* orderedItems have the same size, every ATTACHED item is exactly once in
\* each, and no item without ATTACHED is in orderedItems.
C1_AttachedOnce ==
    /\ SumOver(items, Items) = Len(orderedItems)
    /\ \A i \in Items :
          IF Attached(i)
          THEN items[i] = 1 /\ Occurrences(orderedItems, i) = 1
          ELSE Occurrences(orderedItems, i) = 0

\* C4: removeItem on an item that is not ATTACHED returns true and changes
\* nothing (ordered list, node tree, update queue, selection cursor, flags);
\* so removeItem (x) twice leaves the state that removeItem (x) once leaves.
C4_RemoveIdempotent ==
    \A i \in Items :
        /\ ~Attached(i) =>
              /\ removeItem(State, i).ret = RetBool(TRUE)
              /\ SameButRet(removeItem(State, i), State)
        /\ removeItem(removeItem(State, i), i).ret = RetBool(TRUE)
        /\ SameButRet(removeItem(removeItem(State, i), i), removeItem(State, i))

\* C4 witness: an item was removed while queued, and the cursor of a selection
\* is on the list.
C4_Witness ==
    /\ ret = RetBool(TRUE)
    /\ nextItem > 0
    /\ \E i \in Items : ~Attached(i) /\ FLAG_QUEUED \in flags[i]

\* C8: addItem of an item whose bounds are not fully inside the extents returns
\* false and inserts nothing: ordered list, nodes and flags are unchanged.
C8_AddFailsCleanly ==
    \A i \in Items, b \in ItemRects :
        (~Attached(i) /\ ~RectContains(Extents, b)) =>
            /\ AfterAddItem(i, b).ret = RetBool(FALSE)
            /\ SameButBoundsRet(AfterAddItem(i, b), State, i)

\* C8 witness: addItem has returned false for an item placed outside, with
\* another item attached.
C8_Witness ==
    /\ ret = RetBool(FALSE)
    /\ orderedItems # << >>
    /\ \E i \in Items : bounds[i] = RectOut /\ ~Attached(i)

\* C9: updateItem removes and re-adds the item; when the re-insertion fails it
\* throws, the queue and the item's QUEUED flag are as before the call, and the
\* item is detached and out of orderedItems.
C9_UpdateThrows ==
    \A i \in Items, b \in ItemRects :
        LET t == AfterUpdateItem(i, b)
        IN IF RectContains(Extents, b)
           THEN /\ t.ret = RetVoid
                /\ FLAG_ATTACHED \in t.flags[i]
                /\ Occurrences(t.orderedItems, i) = 1
           ELSE /\ t.ret = RetThrow
                /\ t.updateQueue = updateQueue
                /\ (FLAG_QUEUED \in t.flags[i]) = (FLAG_QUEUED \in flags[i])
                /\ FLAG_ATTACHED \notin t.flags[i]
                /\ t.orderedItems = SelectSeq(orderedItems, LAMBDA v : v # i)

\* C9 witness: updateItem has thrown for an item moved outside the extents
\* that is not queued, while another item is queued.
C9_Witness ==
    /\ ret = RetThrow
    /\ updateQueue # << >>
    /\ \E i \in Items :
          bounds[i] = RectOut /\ ~Attached(i) /\ FLAG_QUEUED \notin flags[i]

\* C10: every item is at most once in updateQueue, and has QUEUED set exactly
\* when it is in updateQueue.
C10_QueueDedup ==
    \A i \in Items :
        /\ Occurrences(updateQueue, i) <= 1
        /\ (FLAG_QUEUED \in flags[i]) = (Occurrences(updateQueue, i) = 1)

\* C10 witness: two or more items are queued, one of them detached since it
\* was queued.
C10_Witness ==
    /\ ret = RetBool(TRUE)
    /\ Len(updateQueue) >= 2
    /\ \E i \in Items : ~Attached(i) /\ FLAG_QUEUED \in flags[i]

\* What a caller gets from getNextSelected () called until it returns null.
RECURSIVE Drain(_)
Drain(s) ==
    LET t == getNextSelected(s, "null")
    IN IF t.ret = RetNull THEN << >> ELSE <<t.ret.n>> \o Drain(t)

ReverseSeq(seq) == [k \in 1 .. Len(seq) |-> seq[Len(seq) + 1 - k]]

\* The attached items in the region that pass the filter, in orderedItems order.
Selection(rect, filter) ==
    SelectSeq(orderedItems,
              LAMBDA i : Attached(i) /\ InRegion(rect, bounds[i]) /\ i \in filter)

\* C2 (as claimed): selectItems (R, filter) and getNextSelected until null
\* yield the attached items that intersect R and pass the filter, each once,
\* in the order they have in orderedItems.
C2_DrainIsSelection ==
    \A rect \in QueryRects, filter \in SUBSET Items :
        Drain(selectItems(State, rect, filter, "null")) = Selection(rect, filter)

\* C2 (amended): the same when no item is SELECTED as selectItems is called,
\* the order being that of orderedItems when the tree's isReverse is false and
\* the reverse of it when isReverse is true.
C2_DrainIsSelectionInDirection ==
    NoneSelected =>
        \A rect \in QueryRects, filter \in SUBSET Items :
            Drain(selectItems(State, rect, filter, "null"))
                = IF isReverse THEN ReverseSeq(Selection(rect, filter))
                  ELSE Selection(rect, filter)

\* C2 witness: selectItems has just selected two items of a tree walked in
\* reverse, and draining yields them bottom first.
C2_Witness ==
    /\ ret = RetInt(2)
    /\ selectedCount = 2
    /\ isReverse
    /\ Len(orderedItems) >= 2
    /\ Drain(State) = ReverseSeq(SelectSeq(orderedItems,
                                           LAMBDA i : FLAG_SELECTED \in flags[i]))

\* countItems returned what selectItems returns and left no item SELECTED, the
\* selected count 0, and lists, nodes, queue, ATTACHED and QUEUED as they were.
CountedReadOnly(rect, filter) ==
    LET t == countItems(State, rect, filter)
    IN /\ t.ret = selectItems(State, rect, filter, "null").ret
       /\ \A i \in Items : FLAG_SELECTED \notin t.flags[i]
       /\ t.selectedCount = 0
       /\ t.orderedItems = orderedItems /\ t.updateQueue = updateQueue
       /\ t.items = items /\ t.held = held /\ t.node = node /\ t.split = split
       /\ \A i \in Items : t.flags[i] \ {FLAG_SELECTED} = flags[i] \ {FLAG_SELECTED}

\* C3 (as claimed): countItems (R, filter) returns what selectItems (R, filter)
\* returns, and afterwards no item is SELECTED, getCountSelected () is 0 and the
\* ordered list, the attachment state and the update queue are unchanged.
C3_CountReadOnly ==
    \A rect \in QueryRects, filter \in SUBSET Items : CountedReadOnly(rect, filter)

\* C3 (amended): the same when no item is SELECTED as countItems is called.
C3_CountReadOnlyWhenDrained ==
    NoneSelected =>
        \A rect \in QueryRects, filter \in SUBSET Items : CountedReadOnly(rect, filter)

\* C3 witness: countItems has returned 1 for a tree of two or more items, all
\* of them queued.
C3_Witness ==
    /\ ret = RetInt(1)
    /\ selectedCount = 0
    /\ NoneSelected
    /\ Len(orderedItems) >= 2
    /\ Len(updateQueue) >= 2


Pos(list, v) == CHOOSE k \in 1 .. Len(list) : list[k] = v

\* orderedItems of s, every element before its successor.
AdjacentBefore(s) ==
    \A k \in 1 .. Len(s.orderedItems) - 1 :
        isBefore(s, s.orderedItems[k], s.orderedItems[k + 1])

\* orderedItems of s, no element's successor strictly before it.
AdjacentNotInverted(s) ==
    \A k \in 1 .. Len(s.orderedItems) - 1 :
        \/ isBefore(s, s.orderedItems[k], s.orderedItems[k + 1])
        \/ ~isBefore(s, s.orderedItems[k + 1], s.orderedItems[k])

\* C5 (as claimed): after setComparator (c) and reorderItems (), isBefore (a, b)
\* holds of every a immediately before b in orderedItems, items of equal keys
\* included.
C5_ReorderAdjacentBefore ==
    \A c \in AllComparators : AdjacentBefore(reorderItems(setComparator(State, c)))

\* C5 (amended): after setComparator (c) and reorderItems (), every a
\* immediately before b in orderedItems has isBefore (a, b) or not
\* isBefore (b, a): items of equal keys are adjacent with neither before the
\* other.
C5_ReorderNotInverted ==
    \A c \in AllComparators : AdjacentNotInverted(reorderItems(setComparator(State, c)))

\* C5 witness: reorderItems () under COMPARATOR_DEFAULT_XY has put first an item
\* that COMPARATOR_DEFAULT_YX puts second.
C5_Witness ==
    /\ fnComparator = "XY"
    /\ Len(orderedItems) >= 2
    /\ orderedItems = reorderItems(State).orderedItems
    /\ isBefore(State, orderedItems[1], orderedItems[2])
    /\ ~isBefore(State, orderedItems[2], orderedItems[1])
    /\ isBefore([State EXCEPT !.fnComparator = "YX"], orderedItems[2], orderedItems[1])

\* C6: with the comparator and xd, yd, zd fixed, after any addItem, removeItem
\* and updateItem calls no item b is later in orderedItems than an item a with
\* isBefore (b, a).
C6_DrawOrder ==
    \A j, k \in 1 .. Len(orderedItems) :
        j < k => ~isBefore(State, orderedItems[k], orderedItems[j])

\* Items a and b of s tie on zindex and X and differ in Y.
TieOnZX(s, a, b) ==
    /\ a # b
    /\ Occurrences(s.orderedItems, a) = 1 /\ Occurrences(s.orderedItems, b) = 1
    /\ s.zindex[a] = s.zindex[b]
    /\ s.insertionBounds[a].x1 = s.insertionBounds[b].x1
    /\ s.insertionBounds[a].y1 # s.insertionBounds[b].y1
    /\ s.insertionBounds[a].y2 # s.insertionBounds[b].y2

\* Toggling yd and reordering reverses, in the list reordered under comparator
\* c, the items that tie on zindex and X.
YFlipReverses(c) ==
    LET s1 == reorderItems(setComparator(State, c))
        s2 == reorderItems(setYd(s1, ~s1.dirs.yd))
    IN \A a, b \in Items :
          TieOnZX(s1, a, b) =>
              (Pos(s1.orderedItems, a) < Pos(s1.orderedItems, b))
                  = (Pos(s2.orderedItems, b) < Pos(s2.orderedItems, a))

YComparators == {"YX", "XY", "Y2", "Y1"}
MaxCalls == 2
CallSeqs == UNION {[1 .. n -> Items \X NotifyRects] : n \in 0 .. MaxCalls}

\* The calls of a sequence made in turn from state s, a caller catching what
\* is thrown: the state they leave (s) and the items in the order of their
\* first updateItem that returned (order).
RECURSIVE UpdateAll(_, _, _)
UpdateAll(s, order, calls) ==
    IF calls = << >> THEN [s |-> s, order |-> order]
    ELSE LET i == Head(calls)[1]
             b == Head(calls)[2]
             t == updateItem([s EXCEPT !.bounds[i] = b], i)
         IN UpdateAll(t,
                      IF t.ret = RetThrow \/ Occurrences(order, i) > 0
                      THEN order ELSE Append(order, i),
                      Tail(calls))

NotifiedItems(s) == [k \in 1 .. Len(s.notified) |-> s.notified[k].item]

NotifiedOnce(r, expected) ==
    LET t == update(r.s)
    IN /\ r.s.notified = << >>
       /\ \A i \in Items :
             Occurrences(NotifiedItems(t), i) = IF i \in expected THEN 1 ELSE 0
       /\ \A k \in 1 .. Len(t.notified) : ~t.notified[k].queued

\* C12 (as claimed): updateItem never calls notifyPosition; an item updateItem
\* was called on, once or more, since the last update () gets exactly one
\* notifyPosition in the next update (), its QUEUED flag clear when the
\* callback runs, and the other items get none.
C12_NotifyOnceDeferred ==
    updateQueue = << >> =>
        \A calls \in CallSeqs :
            NotifiedOnce(UpdateAll(State, << >>, calls),
                         {calls[k][1] : k \in 1 .. Len(calls)})

\* C12 (amended): the same for the items on which an updateItem call returned;
\* an item whose updateItem calls all threw gets no notifyPosition.
C12_NotifyOnceWhenReturned ==
    updateQueue = << >> =>
        \A calls \in CallSeqs :
            LET r == UpdateAll(State, << >>, calls)
            IN NotifiedOnce(r, {r.order[k] : k \in 1 .. Len(r.order)})

\* C12 witness: update () has notified one item once; another item was moved
\* outside the extents, is detached and was not notified.
C12_Witness ==
    /\ Len(notified) = 1
    /\ ~notified[1].queued
    /\ updateQueue = << >>
    /\ \E i \in Items :
          i # notified[1].item /\ bounds[i] = RectOut /\ ~Attached(i)

\* State t is state s with ret v and nothing else changed.
Returned(t, s, v) == t = [s EXCEPT !.ret = v]

\* C13: setComparator, setXd, setYd and setZd return false and change nothing
\* when given the current value; otherwise they store the value and return
\* true; either way orderedItems (and everything else) is as before the call.
C13_SettersDoNotReorder ==
    /\ \A c \in AllComparators :
          IF c = fnComparator
          THEN Returned(setComparator(State, c), State, RetBool(FALSE))
          ELSE Returned(setComparator(State, c),
                        [State EXCEPT !.fnComparator = c], RetBool(TRUE))
    /\ \A v \in Booleans :
          /\ IF v = dirs.xd
             THEN Returned(setXd(State, v), State, RetBool(FALSE))
             ELSE Returned(setXd(State, v), [State EXCEPT !.dirs.xd = v], RetBool(TRUE))
          /\ IF v = dirs.yd
             THEN Returned(setYd(State, v), State, RetBool(FALSE))
             ELSE Returned(setYd(State, v), [State EXCEPT !.dirs.yd = v], RetBool(TRUE))
          /\ IF v = dirs.zd
             THEN Returned(setZd(State, v), State, RetBool(FALSE))
             ELSE Returned(setZd(State, v), [State EXCEPT !.dirs.zd = v], RetBool(TRUE))

\* C13 witness: a setter has returned true and the list of two or more items
\* is not as reorderItems () would leave it under the comparator and flags set.
C13_Witness ==
    /\ ret = RetBool(TRUE)
    /\ fnComparator = "XY"
    /\ dirs.yd
    /\ Len(orderedItems) >= 2
    /\ \E k \in 1 .. Len(orderedItems) - 1 :
          /\ isBefore(State, orderedItems[k + 1], orderedItems[k])
          /\ ~isBefore(State, orderedItems[k], orderedItems[k + 1])

\* C14: reorderItems () only permutes orderedItems: every item is in the new
\* list as many times as in the old one (once), and flags, node tree, attached
\* list and update queue are unchanged.
C14_ReorderPermutes ==
    LET t == reorderItems(State)
    IN /\ Len(t.orderedItems) = Len(orderedItems)
       /\ \A i \in Items :
             /\ Occurrences(t.orderedItems, i) = Occurrences(orderedItems, i)
             /\ Occurrences(t.orderedItems, i) <= 1
       /\ t.flags = flags
       /\ t.held = held /\ t.split = split /\ t.node = node
       /\ t.items = items
       /\ t.bounds = bounds /\ t.insertionBounds = insertionBounds
       /\ t.updateQueue = updateQueue
       /\ t.notified = << >>

\* C14 witness: reorderItems () has put the list of two queued items, one of
\* them SELECTED, in the order of a changed yd.
C14_Witness ==
    /\ ret = RetVoid
    /\ dirs.yd
    /\ Len(orderedItems) >= 2
    /\ Len(updateQueue) >= 2
    /\ \E i \in Items : FLAG_SELECTED \in flags[i]
    /\ insertionBounds[orderedItems[1]].y1 > insertionBounds[orderedItems[2]].y1

\* The states after 1, 2, ... n calls of getNextSelected () from s.
RECURSIVE AfterNext(_, _)
AfterNext(s, n) ==
    IF n = 0 THEN << >>
    ELSE LET t == getNextSelected(s, "null") IN <<t>> \o AfterNext(t, n - 1)

\* selectItems (rect, filter) returns n: the next n getNextSelected () calls
\* return an item, the one after them null, and getCountSelected () is n - k
\* after k of them.
CountsDown(rect, filter) ==
    LET s1 == selectItems(State, rect, filter, "null")
        n == s1.ret.n
        after == AfterNext(s1, n + 1)
    IN /\ s1.selectedCount = n
       /\ \A k \in 1 .. n : after[k].selectedCount = n - k /\ after[k].ret.kind = "item"
       /\ after[n + 1].ret = RetNull

C16_OrdinalsInOrder ==
    \A rect \in QueryRects, filter \in SUBSET Items :
        LET s1 == selectItems(State, rect, filter, "null")
            drained == Drain(s1)
            after == <<s1>> \o AfterNext(s1, Len(drained))
        IN \A k \in 1 .. Len(drained) :
              /\ after[k + 1].ret = RetItem(drained[k], k - 1)
              /\ FLAG_SELECTED \in after[k].flags[drained[k]]
              /\ FLAG_SELECTED \notin after[k + 1].flags[drained[k]]
              /\ \A j \in 1 .. k - 1 : drained[j] # drained[k]

\* C16 witness: the second item of a selection of two has been returned, with
\* selectedIndex 1, and none is SELECTED any more.
C16_Witness ==
    /\ ret.kind = "item"
    /\ ret.index = 1
    /\ selectedIndex = 2
    /\ selectedCount = 0
    /\ NoneSelected

\* What a caller gets from getNextSelected (arg) called until it returns null.
RECURSIVE DrainIn(_, _)
DrainIn(s, arg) ==
    LET t == getNextSelected(s, arg)
    IN IF t.ret = RetNull THEN << >> ELSE <<t.ret.n>> \o DrainIn(t, arg)

\* C17: selectItems with isReverse = true leaves the cursor at the tail of
\* orderedItems and with isReverse = false at its head, and for the same
\* state, region and filter the items drained with isReverse = true (given to
\* selectItems and getNextSelected) are those drained with isReverse = false,
\* in reverse.
C17_ReverseDrain ==
    \A rect \in QueryRects, filter \in SUBSET Items :
        LET fwd == selectItems(State, rect, filter, "false")
            bwd == selectItems(State, rect, filter, "true")
        IN /\ fwd.nextItem = IF orderedItems = << >> THEN CursorNull ELSE 1
           /\ bwd.nextItem = Len(orderedItems)
           /\ DrainIn(bwd, "true") = ReverseSeq(DrainIn(fwd, "false"))

\* C17 witness: selectItems (R, filter, true) has selected two items of a tree
\* whose isReverse is false; the cursor is at the tail.
C17_Witness ==
    /\ ret = RetInt(2)
    /\ ~isReverse
    /\ Len(orderedItems) >= 2
    /\ nextItem = Len(orderedItems)
    /\ DrainIn(State, "true") = ReverseSeq(orderedItems)

\* The states after 0, 1, ... n calls of getNextSelected (arg) from s.
RECURSIVE AfterNextIn(_, _, _)
AfterNextIn(s, arg, n) ==
    IF n = 0 THEN <<s>>
    ELSE <<s>> \o AfterNextIn(getNextSelected(s, arg), arg, n - 1)

\* releaseSelected () called in state s returns, and leaves selectedCount 0 and
\* no item SELECTED.
Releases(s) ==
    LET t == releaseSelected(s)
    IN /\ t.ret = RetVoid
       /\ t.selectedCount = 0
       /\ \A i \in Items : FLAG_SELECTED \notin t.flags[i]

\* Releases, for the selections made with the isReverse arguments of args.
ReleasesAfter(args) ==
    NoneSelected =>
        \A rect \in QueryRects, filter \in SUBSET Items, arg \in args :
            LET s1 == selectItems(State, rect, filter, arg)
                after == AfterNextIn(s1, arg, s1.ret.n)
            IN \A k \in 1 .. Len(after) : Releases(after[k])

\* C18: after selectItems, with any isReverse argument and any isReverse
\* setting of the tree, and any number of getNextSelected calls,
\* releaseSelected () returns and leaves getCountSelected () 0 and no item
\* SELECTED.
C18_ReleaseTerminates == ReleasesAfter(RevArgs)

ShapedNodes == {p \in DOMAIN held : Len(p) < MaxDepth}

IsLeaf(p) == p \notin split /\ Children(p) \cap DOMAIN held = {}
IsInternal(p) == p \in split /\ Children(p) \subseteq DOMAIN held

\* Every attached item is held once, by the node its back-reference names, and
\* that node's bounds fully contain the item's bounds.
HeldByOneNode ==
    \A i \in Items :
        Attached(i) =>
            /\ SumOver([p \in DOMAIN held |-> held[p][i]], DOMAIN held) = 1
            /\ node[i] \in DOMAIN held
            /\ held[node[i]][i] = 1
            /\ RectContains(BoundsOf[node[i]], bounds[i])

C21_WholeWorldCount ==
    LET n == Cardinality({i \in Items : Attached(i)})
    IN /\ Len(orderedItems) = n
       /\ countItems(State, NullRect, Items).ret = RetInt(n)
       /\ \A arg \in RevArgs : selectItems(State, NullRect, Items, arg).ret = RetInt(n)

\* C21 witness: countItems (null) has returned the number of items, all of
\* them attached, of a tree of capacity 1 that has subdivided.
C21_Witness ==
    /\ ret = RetInt(NumItems)
    /\ NoneSelected
    /\ nodeCapacity = 1
    /\ Root \in split
    /\ \A i \in Items : Attached(i)

\* What isBefore reads of an item: its insertion bounds and its zindex.  The
\* items compared range over the boxes of ItemRects on three layers.
DrawnLayers == {0, 1, 2}
Drawn == [b : ItemRects, z : DrawnLayers]

\* isBefore (p, q) under the comparator and the flags of the tree.
Before(p, q) == fnComparatorOf(fnComparator, p.b, q.b, p.z, q.z, dirs)

ZFirstComparators == {"YX", "XY", "MANHATTAN", "Y2"}

\* C22: under COMPARATOR_DEFAULT_YX, _XY, _MANHATTAN and _Y2, for two items
\* with different zindex isBefore (p, q) holds exactly when p.zindex <
\* q.zindex if zd is false and exactly when p.zindex > q.zindex if zd is true,
\* whatever their bounds and xd, yd.
C22_ZFirst ==
    fnComparator \in ZFirstComparators =>
        \A p, q \in Drawn :
            p.z # q.z =>
                (Before(p, q) <=> IF dirs.zd THEN p.z > q.z ELSE p.z < q.z)

\* C22 witness: under COMPARATOR_MANHATTAN with zd set, an item has been added
\* before an item of a lower layer whose box is nearer the origin.
C22_Witness ==
    /\ fnComparator = "MANHATTAN"
    /\ dirs.zd
    /\ ret = RetBool(TRUE)
    /\ \E i, j \in Items :
          /\ orderedItems = <<i, j>>
          /\ zindex[i] > zindex[j]
          /\ insertionBounds[i] = RectNE /\ insertionBounds[j] = RectNW

\* An axis comparison inverted by its flag, as the comparators write it.
AxisBefore(u, v, flag) == Xor(u < v, flag)

\* C23: for two items with equal zindex COMPARATOR_DEFAULT_YX decides
\* isBefore by y1 then x1 and COMPARATOR_DEFAULT_XY by x1 then y1, each axis
\* comparison inverted by its own flag, for every combination of xd, yd and
\* zd.
C23_AxesBreakTies ==
    \A p, q \in Drawn :
        p.z = q.z =>
            /\ fnComparator = "YX" =>
                  (Before(p, q) <=>
                      \/ AxisBefore(p.b.y1, q.b.y1, dirs.yd)
                      \/ p.b.y1 = q.b.y1 /\ AxisBefore(p.b.x1, q.b.x1, dirs.xd))
            /\ fnComparator = "XY" =>
                  (Before(p, q) <=>
                      \/ AxisBefore(p.b.x1, q.b.x1, dirs.xd)
                      \/ p.b.x1 = q.b.x1 /\ AxisBefore(p.b.y1, q.b.y1, dirs.yd))

\* C24: for each supplied comparator and every combination of xd, yd, zd,
\* isBefore is irreflexive, asymmetric and transitive over items with bounded
\* integer coordinates and zindex.
C24_StrictOrder ==
    \A p, q \in Drawn :
        /\ ~Before(p, p)
        /\ ~(Before(p, q) /\ Before(q, p))
        /\ \A r \in Drawn : Before(p, q) /\ Before(q, r) => Before(p, r)

\* The number of items of s whose SELECTED flag is set.
CountSelected(s) == Cardinality({i \in Items : FLAG_SELECTED \in s.flags[i]})

\* A selection made with isReverse argument a1 and drained by getNextSelected
\* (a2) until it returns null: getCountSelected () is the number of SELECTED
\* items all along, and when null is returned no item is SELECTED.
DrainsClean(rect, filter, a1, a2) ==
    LET s1 == selectItems(State, rect, filter, a1)
        n == s1.ret.n
        after == AfterNextIn(s1, a2, n + 1)
    IN /\ \A k \in 1 .. Len(after) : after[k].selectedCount = CountSelected(after[k])
       /\ after[n + 2].ret = RetNull
       /\ CountSelected(after[n + 2]) = 0

\* The same for a selection ended by releaseSelected () after any number of
\* getNextSelected (a1) calls.
ReleasesClean(rect, filter, a1) ==
    LET s1 == selectItems(State, rect, filter, a1)
        after == AfterNextIn(s1, a1, s1.ret.n)
    IN \A k \in 1 .. Len(after) : Releases(after[k])

\* C25 (as claimed): when each selection is drained (getNextSelected until
\* null, or releaseSelected) before the next selectItems and no item is added,
\* removed or updated while a selection is live, getCountSelected () is the
\* number of SELECTED items and no item is SELECTED when no selection is live.
C25_OneSelection ==
    /\ selectedCount = CountSelected(State)
    /\ ~SelectionLive =>
          /\ NoneSelected
          /\ \A rect \in QueryRects, filter \in DrainFilters, a1, a2 \in RevArgs :
                DrainsClean(rect, filter, a1, a2)

\* C25 (amended): the same when each selection is drained in the direction it
\* was started in: by getNextSelected calls of that direction, or by
\* releaseSelected () when that direction is the tree's isReverse.
C25_OneSelectionInDirection ==
    /\ selectedCount = CountSelected(State)
    /\ ~SelectionLive =>
          /\ NoneSelected
          /\ \A rect \in QueryRects, filter \in DrainFilters, a1, a2 \in RevArgs :
                Reverse(State, a1) = Reverse(State, a2) =>
                    /\ DrainsClean(rect, filter, a1, a2)
                    /\ a2 = "null" => ReleasesClean(rect, filter, a1)

\* C25 witness: of a selection made after an earlier one was drained, one
\* item has been returned and one is still SELECTED.
C25_Witness ==
    /\ ret.kind = "item"
    /\ isReverse
    /\ selectedCount = 1
    /\ CountSelected(State) = 1
    /\ selectedIndex = 1
    /\ Root \in split

AttachesAsAddItem(x, b) ==
    LET s0 == [State EXCEPT !.bounds[x] = b]
        a == addItem(s0, x)
        t == updateItem(s0, x)
    IN /\ removeItem(s0, x) = [s0 EXCEPT !.ret = RetBool(TRUE)]
       /\ t.ret = RetVoid
       /\ FLAG_ATTACHED \in t.flags[x]
       /\ FLAG_QUEUED \in t.flags[x]
       /\ Occurrences(t.updateQueue, x) = 1
       /\ [t EXCEPT !.ret = a.ret, !.updateQueue = a.updateQueue,
                    !.flags[x] = a.flags[x]] = a

\* C27 (as claimed): updateItem on an item that is not ATTACHED attaches it:
\* the internal removeItem is a no-op, the item is inserted into the tree and
\* orderedItems exactly as addItem would, and it is queued (QUEUED set, one
\* entry in updateQueue).
C27_UpdateAttaches ==
    \A x \in Items, b \in ItemRects :
        ~Attached(x) => AttachesAsAddItem(x, b)

\* C27 (amended): the same when the item's bounds are inside the extents of
\* the tree; when they are not, updateItem throws and leaves the item as it
\* was, detached.
C27_UpdateAttachesInside ==
    \A x \in Items, b \in ItemRects :
        ~Attached(x) =>
            IF RectContains(Extents, b)
            THEN AttachesAsAddItem(x, b)
            ELSE AfterUpdateItem(x, b) = [State EXCEPT !.bounds[x] = b, !.ret = RetThrow]

\* C27 witness: updateItem has attached and queued an item of a tree whose
\* other items are detached and not queued.
C27_Witness ==
    /\ ret = RetVoid
    /\ notified = << >>
    /\ \E x \in Items :
          /\ updateQueue = <<x>>
          /\ orderedItems = <<x>>
          /\ Attached(x) /\ FLAG_QUEUED \in flags[x]
          /\ held[Root][x] = 1

\* C28: removeItem does not touch the update queue: an item that is QUEUED
\* when it is removed stays in updateQueue with QUEUED set, and is notified by
\* the next update () although it is no longer attached.
C28_RemoveKeepsQueued ==
    \A x \in Items :
        LET t == removeItem(State, x)
            u == update(t)
        IN /\ t.updateQueue = updateQueue
           /\ \A i \in Items : (FLAG_QUEUED \in t.flags[i]) = (FLAG_QUEUED \in flags[i])
           /\ Attached(x) /\ FLAG_QUEUED \in flags[x] =>
                 /\ t.ret = RetBool(TRUE)
                 /\ FLAG_ATTACHED \notin t.flags[x]
                 /\ Occurrences(t.updateQueue, x) = 1
                 /\ Occurrences(NotifiedItems(u), x) = 1
                 /\ FLAG_ATTACHED \notin u.flags[x]

\* C28 witness: update () has notified an item that was removed while it was
\* queued (it is detached, with bounds inside the extents) after another that
\* is still attached.
C28_Witness ==
    /\ Len(notified) = 2
    /\ updateQueue = << >>
    /\ Attached(notified[1].item)
    /\ ~Attached(notified[2].item)
    /\ bounds[notified[2].item] = RectMid

\* C29 (as claimed): getCountSelected () is never negative, after any sequence
\* of selectItems, getNextSelected, releaseSelected, addItem, removeItem and
\* updateItem, a selectItems issued before the previous selection was drained
\* included.
C29_CountNotNegative == selectedCount >= 0

\* getCountSelected () covers the items of s that are SELECTED.
CountCovers(s) == s.selectedCount >= CountSelected(s)

\* C29 (amended): selectItems called when no item is SELECTED leaves
\* getCountSelected () at least the number of SELECTED items, and every other
\* call keeps it so; it is then never negative.
C29_CountCoversSelected ==
    /\ NoneSelected =>
          \A rect \in QueryRects, filter \in SUBSET Items, arg \in RevArgs :
              CountCovers(selectItems(State, rect, filter, arg))
    /\ CountCovers(State) =>
          /\ selectedCount >= 0
          /\ \A arg \in RevArgs : CountCovers(getNextSelected(State, arg))
          /\ CountCovers(releaseSelected(State))
          /\ \A i \in Items :
                /\ CountCovers(removeItem(State, i))
                /\ CountCovers(addItem(State, i))
                /\ \A b \in ItemRects :
                      /\ CountCovers(AfterUpdateItem(i, b))
                      /\ ~Attached(i) => CountCovers(AfterAddItem(i, b))

\* C29 witness: an item has been removed while a selection was live and
\* another item of the selection has then been returned; the count still
\* covers the removed item, which remains SELECTED.
C29_Witness ==
    /\ ret.kind = "item"
    /\ selectedCount = 1
    /\ CountCovers(State)
    /\ \E i \in Items :
          /\ FLAG_SELECTED \in flags[i]
          /\ ~Attached(i)

\* The most iterations one update () makes here.
MaxTurns == NumItems + MaxNotify

\* C30: whenever update () returns, updateQueue is empty and no item has
\* QUEUED set, also when notifyPosition callbacks call updateItem during the
\* drain; an item queued while update () runs is notified again within the
\* same call (unless an exception leaves it); and update () terminates once
\* the callbacks stop re-queuing.
C30_UpdateDrains ==
    /\ [][updating /\ ~updating' /\ ret' = RetVoid =>
             /\ updateQueue' = << >>
             /\ \A i \in Items : FLAG_QUEUED \notin flags'[i]]_vars
    /\ \A i \in Items, n \in 0 .. MaxTurns :
          (updating /\ Occurrences(updateQueue, i) = 1
              /\ Occurrences(NotifiedItems(Running), i) = n)
          ~> \/ updating /\ Occurrences(NotifiedItems(Running), i) = n + 1
             \/ ~updating /\ ret = RetThrow
    /\ updating ~> ~updating

\* C30 witness: update () has returned after notifying an item twice, the
\* second time because a callback called updateItem for it.
C30_Witness ==
    /\ ~updating
    /\ ret = RetVoid
    /\ updateQueue = << >>
    /\ \A i \in Items : FLAG_QUEUED \notin flags[i]
    /\ \E i \in Items : Occurrences(NotifiedItems(Running), i) = 2

\* C31: clear () removes every item: after it orderedItems and the update
\* queue are empty, countItems (null) returns 0 and getNextSelected () returns
\* null, whatever selection or pending updates were live before the call.
C31_ClearEmpties ==
    \A stale \in Booleans :
        LET t == clear(State, stale)
        IN /\ t.orderedItems = << >>
           /\ t.updateQueue = << >>
           /\ countItems(t, NullRect, Items).ret = RetInt(0)
           /\ getNextSelected(t, "null").ret = RetNull

\* Some handler of the queue throws under the plan.
Throws(queue, plan) == \E k \in 1 .. Len(queue) : plan[queue[k]] = "throw"

\* C32: while flags.renderingPaused is set or flags.renderingEnabled is clear,
\* every onFrame runs System.draw once, never System.update, and leaves
\* frameNumber, frameTime, frameTimeMillis and frameDelta as they were; after
\* resume () the next onFrame the frame timer makes runs update, then draw
\* (unless a handler's update threw), and advances frameNumber by one.
C32_PauseKeepsRendering ==
    \A delta \in Deltas, uplan, dplan \in DrawPlans :
        /\ system.renderingPaused \/ ~system.renderingEnabled =>
              LET t == onFrame(system, delta, uplan, dplan)
              IN /\ t.ran = <<"draw">>
                 /\ t.frameNumber = system.frameNumber
                 /\ t.frameTime = system.frameTime
                 /\ t.frameTimeMillis = system.frameTimeMillis
                 /\ t.frameDelta = system.frameDelta
        /\ system.frameTimerIsRunning =>
              LET t == onFrame(resume(system), delta, uplan, dplan)
              IN /\ t.ran = IF Throws(system.updateQueue, uplan)
                            THEN <<"update">> ELSE <<"update", "draw">>
                 /\ t.frameNumber = system.frameNumber + 1

\* A frame was drawn and not updated while the system was paused, after a
\* frame that was updated.
C32_Witness ==
    /\ system.renderingPaused
    /\ system.frameTimerIsRunning
    /\ system.frameNumber > 0
    /\ system.ran = <<"draw">>
    /\ Len(system.called) = NumHandlers

\* C33: frameUpdateInProgress is true only while System.update is executing
\* inside onFrame and frameDrawInProgress only while System.draw is; both are
\* false whenever onFrame is not running, also after a frame in which a
\* handler's update or draw threw.
C33_InProgressOnlyInside ==
    /\ ~system.frameUpdateInProgress
    /\ ~system.frameDrawInProgress
    /\ \A k \in 1 .. Len(system.called) :
          LET c == system.called[k]
          IN /\ c.frameUpdateInProgress <=> c.op = "update"
             /\ c.frameDrawInProgress <=> c.op = "draw"

RECURSIVE CalledHandlers(_)
CalledHandlers(calls) ==
    IF calls = << >> THEN << >>
    ELSE <<Head(calls).handler>> \o CalledHandlers(Tail(calls))

RemovePlans == [Handlers -> {"ok", "remove"}]

\* C35: when handlers remove themselves from the update queue while their
\* update () is being called from System.update, every entry that was in the
\* queue at the start of the cycle is still called exactly once, in order, and
\* a handler that removed itself is not called in the cycles after it.
C35_SelfRemovalSafe ==
    \A plan \in RemovePlans :
        LET t == System_update(Called(system), Tick, 1, plan)
        IN /\ CalledHandlers(t.called) = system.updateQueue
           /\ \A h \in Handlers :
                 plan[h] = "remove" =>
                    /\ Occurrences(t.updateQueue, h) = 0
                    /\ \A later \in RemovePlans :
                          LET u == System_update(Called(t), Tick, 1, later)
                          IN \A k \in 1 .. Len(u.called) :
                                u.called[k].handler # h
           /\ \A h \in Handlers :
                 plan[h] = "ok" =>
                    Occurrences(t.updateQueue, h)
                       = Occurrences(system.updateQueue, h)

\* A cycle in which the first handler removed itself and the one queued after
\* it was called.
C35_Witness ==
    /\ system.ran = <<"update">>
    /\ Len(system.called) >= 2
    /\ system.called[1].handler # system.called[2].handler
    /\ Occurrences(system.updateQueue, system.called[1].handler) = 0
    /\ Occurrences(system.updateQueue, system.called[2].handler) = 1

\* The positions of the callback calls made with isFinished = true.
FinishedCalls(p) == {k \in 1 .. Len(p.calls) : p.calls[k].isFinished}

\* C36: once System.update has delivered enough accumulated time to an
\* interpolation, for every set of keys with durations >= 0, the callback has
\* been invoked with isFinished = true exactly once, with every value equal to
\* its dst value, the interpolator is out of the update queue, and the callback
\* was not invoked after that.
C36_InterpolateFinishes ==
    LET p == system.interpolator
    IN p.active /\ (\A x \in DOMAIN p.src : p.delivered >= p.duration[x]) =>
          /\ FinishedCalls(p) = {Len(p.calls)}
          /\ \A x \in DOMAIN p.src :
                LET v == p.calls[Len(p.calls)].data[x]
                IN v.num = p.dst[x] * v.den
          /\ Occurrences(system.updateQueue, Interpolator) = 0

\* The same for interpolations whose durations are all above zero.
InterpolateFinishesPositive ==
    LET p == system.interpolator
    IN p.active /\ (\A x \in DOMAIN p.src : p.duration[x] > 0) =>
          C36_InterpolateFinishes

\* C37: after stop () the callback is not invoked until start () is called:
\* every timeout that was scheduled still fires, and onTimeout then returns
\* without calling the callback and without scheduling a new timeout.
C37_StoppedStaysSilent ==
    LET s == Timer_stop(timer)
    IN /\ ~s.isRunning
       /\ \A k \in 1 .. Len(s.pending), cb \in Callbacks :
             LET t == onTimeout(Fired(s, k), cb)
             IN /\ t.called = 0
                /\ t.pending = remove(s.pending, k)
                /\ ~t.isRunning
                /\ \A j \in 1 .. Len(t.pending) :
                      LET u == onTimeout(Fired(t, j), cb)
                      IN u.called = 0 /\ u.pending = remove(t.pending, j)

\* A timeout scheduled before the stop fired after it, the callback was not
\* called and no timeout is left.
C37_Witness ==
    /\ ~timer.isRunning
    /\ timer.last = "onTimeout"
    /\ timer.called = 0
    /\ timer.pending = << >>

\* C38: a Timer has at most one pending timeout at any time; stop () followed
\* by start () before the scheduled timeout fired, or start () called twice,
\* does not leave two timeout chains.
C38_OnePendingTimeout == Len(timer.pending) <= 1

====
